---- MODULE Spec2Model ----
(***************************************************************************)
(* Credential issuance, WAL rollback and revocation of the Kubernetes      *)
(* secrets engine: createCreds (path_creds.go), walRollback (wal.go),      *)
(* kubeTokenRevoke (kube_service_account.go) and the object client.        *)
(* The remote cluster, the storage, the host's WAL sweep, the host's lease *)
(* engine and the cluster's garbage collector are the environment.         *)
(***************************************************************************)
EXTENDS Integers, Sequences, FiniteSets, TLC

VARIABLES roles, roleOp, reqs, cluster, wal, iss, lease, rev, discarded, now,
          client, getClients, unknownKind

vars ==
  <<roles, roleOp, reqs, cluster, wal, iss, lease, rev, discarded, now, client,
    getClients, unknownKind>>

----------------------------------------------------------------------------
(* Bounds and constants.  Durations are counted in abstract ticks.         *)

MaxIssuances == 1
MaxTime == 2

maxWALAge == 1
SysDefaultTTL == 3
SysMaxTTL == 3

Issuances == 1..MaxIssuances
Namespaces == {"ns1", "ns2"}
ReqTTLs == {0, 1, 4}

walRoleKind == "role"
walBindingKind == "roleBinding"

NoWAL == <<>>
NoOwner == [Kind |-> "", Name |-> "", UID |-> 0]

----------------------------------------------------------------------------
(* Strings.                                                                *)

ToLower(s) ==
  CASE s \in {"Role", "role", "RolE"} -> "role"
    [] s \in {"ClusterRole", "clusterrole", "Clusterrole"} -> "clusterrole"
    [] OTHER -> s

makeRoleType(roleType) ==
  CASE ToLower(roleType) = "role" -> "Role"
    [] ToLower(roleType) = "clusterrole" -> "ClusterRole"
    [] OTHER -> ""

StrListContains(haystack, needle) == needle \in haystack

----------------------------------------------------------------------------
(* Role entries in storage.                                                *)

roleEntry(nss, maxTTL, ttl, sa, k8sRole, k8sType, rules) ==
  [K8sNamespaces |-> nss, TokenMaxTTL |-> maxTTL, TokenTTL |-> ttl,
   ServiceAccountName |-> sa, K8sRoleName |-> k8sRole,
   K8sRoleType |-> k8sType, RoleRules |-> rules]

StoredRoles ==
  ("sa"    :> roleEntry({"*"},   0, 0, "sample-app", "", "Role", "")) @@
  ("k8s"   :> roleEntry({"ns1"}, 0, 0, "", "existing-role", "Role", "")) @@
  ("k8sc"  :> roleEntry({"*"},   0, 0, "", "existing-role", "clusterrole", "")) @@
  ("gen"   :> roleEntry({"*"},   0, 0, "", "", "RolE", "rules")) @@
  ("genc"  :> roleEntry({"ns1"}, 0, 0, "", "", "ClusterRole", "rules")) @@
  ("t01"   :> roleEntry({"*"},   1, 0, "sample-app", "", "Role", "")) @@
  ("t10"   :> roleEntry({"*"},   0, 1, "sample-app", "", "Role", "")) @@
  ("t12"   :> roleEntry({"*"},   2, 1, "sample-app", "", "Role", "")) @@
  ("t40"   :> roleEntry({"*"},   0, 4, "sample-app", "", "Role", "")) @@
  ("kt"    :> roleEntry({"*"},   2, 0, "", "existing-role", "ClusterRole", ""))

credsRequest(roleName, namespace, clusterRoleBinding, ttl) ==
  [RoleName |-> roleName, Namespace |-> namespace,
   ClusterRoleBinding |-> clusterRoleBinding, TTL |-> ttl]

(* The requests the host may deliver: every namespace and binding scope    *)
(* for the roles of each issuance path, and every TTL for the TTL roles.   *)
Requests ==
  { credsRequest(rn, ns, crb, 0) :
      rn \in {"sa", "k8s", "k8sc", "gen", "genc", "missing"},
      ns \in Namespaces, crb \in BOOLEAN }
  \cup
  { credsRequest(rn, "ns1", FALSE, ttl) :
      rn \in {"sa", "t01", "t10", "t12", "t40", "kt"}, ttl \in ReqTTLs }

(* Requests delivered while another issuance is in progress: one for each  *)
(* issuance path.                                                          *)
ConcurrentRequests ==
  { credsRequest("sa", "ns1", FALSE, 0),
    credsRequest("k8sc", "ns1", TRUE, 0),
    credsRequest("gen", "ns1", FALSE, 0) }

InitWith(first, rest) ==
  { f \in [Issuances -> Requests] :
      /\ f[1] \in first
      /\ \A i \in Issuances \ {1} : f[i] \in rest }

nilRole == roleEntry({}, 0, 0, "", "", "", "")

getRole(name) == IF name \in DOMAIN roles THEN roles[name] ELSE nilRole

(* pathRolesWrite, pathRolesRead, pathRolesDelete.  A write's field data is *)
(* a function from the names of the supplied fields to their values, so    *)
(* that d.GetOk(k) is k \in DOMAIN d.                                       *)

defaultRoleType == "Role"

GetOk(d, k) == k \in DOMAIN d

onlyOneSet_atMostOne(vs) ==
  Cardinality({ k \in 1..Len(vs) : vs[k] # "" }) <= 1

onlyOneSet(vs) ==
  Cardinality({ k \in 1..Len(vs) : vs[k] # "" }) = 1

(* The documents a request can carry as generated_role_rules: a JSON rules *)
(* document, a YAML one, and one that is neither.                          *)
RuleDocs == {"rules", "yamlrules", "badrules"}

ParsesAsJSON(doc) == doc = "rules"

ParsesAsYAML_anything(doc) == TRUE

ParsesAsYAML(doc) == doc \in {"rules", "yamlrules"}

(* The entry pathRolesWrite builds from the stored entry and the request.  *)
MergeRole(entry, d) ==
  LET e1 == roleEntry(
        IF GetOk(d, "allowed_kubernetes_namespaces")
          THEN d["allowed_kubernetes_namespaces"] ELSE entry.K8sNamespaces,
        IF GetOk(d, "token_max_ttl")
          THEN d["token_max_ttl"] ELSE entry.TokenMaxTTL,
        IF GetOk(d, "token_ttl") THEN d["token_ttl"] ELSE entry.TokenTTL,
        IF GetOk(d, "service_account_name")
          THEN d["service_account_name"] ELSE entry.ServiceAccountName,
        IF GetOk(d, "kubernetes_role_name")
          THEN d["kubernetes_role_name"] ELSE entry.K8sRoleName,
        IF GetOk(d, "kubernetes_role_type")
          THEN d["kubernetes_role_type"] ELSE entry.K8sRoleType,
        IF GetOk(d, "generated_role_rules")
          THEN d["generated_role_rules"] ELSE entry.RoleRules)
  IN IF e1.K8sRoleType = "" THEN [e1 EXCEPT !.K8sRoleType = defaultRoleType]
     ELSE e1

errNamespaces == "allowed_kubernetes_namespaces must be set"
errOnlyOne ==
  "one (and only one) of service_account_name, kubernetes_role_name or generated_role_rules must be set"
errRoleType == "kubernetes_role_type must be either 'Role' or 'ClusterRole'"
errRules ==
  "failed to parse 'generated_role_rules' as k8s.io/api/rbac/v1/Policy object"

(* The sanity checks of pathRolesWrite, in their order: the error response *)
(* of the first that fails, "" when all pass.                              *)
RoleCheck(entry) ==
  IF entry.K8sNamespaces = {}
  THEN errNamespaces
  ELSE IF ~onlyOneSet(<<entry.ServiceAccountName, entry.K8sRoleName,
                        entry.RoleRules>>)
  THEN errOnlyOne
  ELSE IF ToLower(entry.K8sRoleType) # "role"
          /\ ToLower(entry.K8sRoleType) # "clusterrole"
  THEN errRoleType
  ELSE IF entry.RoleRules # "" /\ ~ParsesAsJSON(entry.RoleRules)
          /\ ~ParsesAsYAML(entry.RoleRules)
  THEN errRules
  ELSE ""

setRole(rs, name, entry) ==
  [n \in DOMAIN rs \cup {name} |-> IF n = name THEN entry ELSE rs[n]]

NoRoleOp == [op |-> "none", name |-> "", d |-> <<>>, err |-> "", resp |-> nilRole]

pathRolesWrite(name, d) ==
  /\ LET entry == MergeRole(getRole(name), d)
          err == RoleCheck(entry)
     IN IF err # ""
        THEN /\ roleOp' = [op |-> "write", name |-> name, d |-> d,
                           err |-> err, resp |-> nilRole]
             /\ UNCHANGED roles
        ELSE \E putOK \in BOOLEAN :
             /\ roleOp' = [op |-> "write", name |-> name, d |-> d,
                           err |-> IF putOK THEN "" ELSE "storage",
                           resp |-> nilRole]
             /\ roles' = IF putOK THEN setRole(roles, name, entry) ELSE roles
  /\ UNCHANGED <<unknownKind, getClients, reqs, cluster, wal, iss, lease, rev, discarded, now, client>>

pathRolesRead(name) ==
  /\ roleOp' = [op |-> "read", name |-> name, d |-> <<>>, err |-> "",
                resp |-> getRole(name)]
  /\ UNCHANGED <<unknownKind, getClients, roles, reqs, cluster, wal, iss, lease, rev, discarded, now,
                 client>>

pathRolesDelete_cascade(name) ==
  /\ \E delOK \in BOOLEAN :
       /\ roleOp' = [op |-> "delete", name |-> name, d |-> <<>>,
                     err |-> IF delOK THEN "" ELSE "storage", resp |-> nilRole]
       /\ roles' = IF delOK THEN [n \in DOMAIN roles \ {name} |-> roles[n]]
                   ELSE roles
  /\ cluster' = { o \in cluster :
                    ~\E i \in Issuances : iss[i].RoleName = name /\ o.UID = i }
  /\ UNCHANGED <<unknownKind, getClients, reqs, wal, iss, lease, rev, discarded, now, client>>

pathRolesDelete(name) ==
  /\ \E delOK \in BOOLEAN :
       /\ roleOp' = [op |-> "delete", name |-> name, d |-> <<>>,
                     err |-> IF delOK THEN "" ELSE "storage", resp |-> nilRole]
       /\ roles' = IF delOK THEN [n \in DOMAIN roles \ {name} |-> roles[n]]
                   ELSE roles
  /\ UNCHANGED <<unknownKind, getClients, reqs, cluster, wal, iss, lease, rev, discarded, now, client>>

(* Role management alone: writes, reads and deletes of one role name that  *)
(* is stored at the start, so that a write is an update of a stored entry  *)
(* and, after a delete, a create.  The requests are every single supplied  *)
(* field with each of its values, the creates of each kind of role, and    *)
(* the updates that switch a role from one kind to another.                *)
RoleNames == {"gen"}

FieldValues ==
  [allowed_kubernetes_namespaces |-> {{}, {"*"}, {"ns1"}},
   token_max_ttl |-> {0, 2},
   token_ttl |-> {0, 1, 4},
   service_account_name |-> {"", "sample-app"},
   kubernetes_role_name |-> {"", "existing-role"},
   kubernetes_role_type |-> {"", "Role", "RolE", "clusterrole", "ClusterRole",
                             "notARole"},
   generated_role_rules |-> {""} \cup RuleDocs]

SingleFieldWrites ==
  UNION { { k :> v : v \in FieldValues[k] } : k \in DOMAIN FieldValues }

CreateWrites ==
  { ("allowed_kubernetes_namespaces" :> {"*"}) @@ m :
      m \in { "service_account_name" :> "sample-app",
              "kubernetes_role_name" :> "existing-role",
              ("service_account_name" :> "sample-app")
                @@ ("kubernetes_role_name" :> "existing-role"),
              ("service_account_name" :> "sample-app")
                @@ ("token_ttl" :> 4) @@ ("token_max_ttl" :> 2) }
           \cup { "generated_role_rules" :> doc : doc \in RuleDocs }
           \cup { ("generated_role_rules" :> "yamlrules")
                    @@ ("kubernetes_role_type" :> t) :
                    t \in FieldValues["kubernetes_role_type"] } }

SwitchWrites ==
  { ("service_account_name" :> "") @@ ("kubernetes_role_name" :> "existing-role"),
    ("kubernetes_role_name" :> "") @@ ("generated_role_rules" :> "rules"),
    ("generated_role_rules" :> "") @@ ("service_account_name" :> "sample-app") }

RoleWrites == SingleFieldWrites \cup CreateWrites \cup SwitchWrites

----------------------------------------------------------------------------
(* The remote cluster: a set of objects.  Cluster-scoped kinds have        *)
(* Namespace "".  UID 0 marks objects that existed before any issuance.    *)

NoSubject == [Namespace |-> "", Name |-> ""]

Obj(kind, ns, name, owner, uid) ==
  [Kind |-> kind, Namespace |-> ns, Name |-> name, Owner |-> owner, UID |-> uid,
   Subject |-> NoSubject]

PreExisting ==
  { Obj("Role", "ns1", "existing-role", NoOwner, 0),
    Obj("ClusterRole", "", "existing-role", NoOwner, 0),
    Obj("ServiceAccount", "ns1", "sample-app", NoOwner, 0) }

Exists(c, kind, ns, name) ==
  \E o \in c : o.Kind = kind /\ o.Namespace = ns /\ o.Name = name

Remove(c, kind, ns, name) ==
  { o \in c : ~(o.Kind = kind /\ o.Namespace = ns /\ o.Name = name) }

OwnerRefOf(kind, name, uid) == [Kind |-> kind, Name |-> name, UID |-> uid]

(* client.createRole: the kind and scope chosen from the Vault role type. *)
RoleKind(roleType) ==
  CASE ToLower(roleType) = "role" -> "Role"
    [] ToLower(roleType) = "clusterrole" -> "ClusterRole"
    [] OTHER -> ""

RoleObj(namespace, name, roleType, uid) ==
  IF RoleKind(roleType) = "Role"
  THEN Obj("Role", namespace, name, NoOwner, uid)
  ELSE Obj("ClusterRole", "", name, NoOwner, uid)

BindingObj_unowned(namespace, name, isClusterRoleBinding, owner, uid) ==
  [(IF isClusterRoleBinding
    THEN Obj("ClusterRoleBinding", "", name, NoOwner, uid)
    ELSE Obj("RoleBinding", namespace, name, NoOwner, uid))
   EXCEPT !.Subject = [Namespace |-> namespace, Name |-> name]]

BindingObj_subjectUnscoped(namespace, name, isClusterRoleBinding, owner, uid) ==
  [(IF isClusterRoleBinding
    THEN Obj("ClusterRoleBinding", "", name, owner, uid)
    ELSE Obj("RoleBinding", namespace, name, owner, uid))
   EXCEPT !.Subject = [Namespace |-> IF isClusterRoleBinding THEN ""
                                     ELSE namespace,
                       Name |-> name]]

(* client.createRoleBinding: the binding's one subject is the service      *)
(* account of the binding's own name in the given namespace.               *)
BindingObj(namespace, name, isClusterRoleBinding, owner, uid) ==
  [(IF isClusterRoleBinding
    THEN Obj("ClusterRoleBinding", "", name, owner, uid)
    ELSE Obj("RoleBinding", namespace, name, owner, uid))
   EXCEPT !.Subject = [Namespace |-> namespace, Name |-> name]]

ServiceAccountObj_unowned(namespace, name, owner, uid) ==
  Obj("ServiceAccount", namespace, name, NoOwner, uid)

(* client.createServiceAccount *)
ServiceAccountObj(namespace, name, owner, uid) ==
  Obj("ServiceAccount", namespace, name, owner, uid)

(* client.deleteRole: the remote delete it issues, not-found is success.  *)
deleteRole_caseSensitive(c, namespace, name, roleType) ==
  IF roleType = "Role"
  THEN Remove(c, "Role", namespace, name)
  ELSE Remove(c, "ClusterRole", "", name)

deleteRole(c, namespace, name, roleType) ==
  IF RoleKind(roleType) = "Role"
  THEN Remove(c, "Role", namespace, name)
  ELSE Remove(c, "ClusterRole", "", name)

deleteRoleBinding(c, namespace, name, isClusterRoleBinding) ==
  IF isClusterRoleBinding
  THEN Remove(c, "ClusterRoleBinding", "", name)
  ELSE Remove(c, "RoleBinding", namespace, name)

deleteServiceAccount_wholeNamespace(c, namespace, name) ==
  { o \in c : ~(o.Kind = "ServiceAccount" /\ o.Namespace = namespace) }

deleteServiceAccount_noop(c, namespace, name) == c

deleteServiceAccount(c, namespace, name) ==
  Remove(c, "ServiceAccount", namespace, name)

(* The answer of the cluster's Delete call: an API error, NotFound for an  *)
(* object that is not there, or nil.                                       *)
RemoteDelete(found, apiErr) ==
  IF apiErr THEN "error" ELSE IF ~found THEN "notFound" ELSE ""

(* The error the client's delete functions return for that answer.         *)
deleteErr_noNotFoundTest(err) == err # ""

deleteErr(err) == err # "" /\ err # "notFound"

RoleExists(c, namespace, name, roleType) ==
  IF RoleKind(roleType) = "Role"
  THEN Exists(c, "Role", namespace, name)
  ELSE Exists(c, "ClusterRole", "", name)

RoleBindingExists(c, namespace, name, isClusterRoleBinding) ==
  IF isClusterRoleBinding
  THEN Exists(c, "ClusterRoleBinding", "", name)
  ELSE Exists(c, "RoleBinding", namespace, name)

ServiceAccountExists(c, namespace, name) ==
  Exists(c, "ServiceAccount", namespace, name)

----------------------------------------------------------------------------
(* Issuance: pathCredentialsRead and createCreds.                          *)

GenName(i) == "v-" \o ToString(i)

ValidateRequest_noWildcardTest(role, namespace, clusterRoleBinding) ==
  IF ~StrListContains(role.K8sNamespaces, "*")
     /\ StrListContains(role.K8sNamespaces, namespace)
  THEN "namespace not allowed"
  ELSE IF clusterRoleBinding /\ makeRoleType(role.K8sRoleType) = "Role"
  THEN "a ClusterRoleBinding cannot ref a Role"
  ELSE "ok"

ValidateRequest_rawRoleType(role, namespace, clusterRoleBinding) ==
  IF ~StrListContains(role.K8sNamespaces, "*")
     /\ ~StrListContains(role.K8sNamespaces, namespace)
  THEN "namespace not allowed"
  ELSE IF clusterRoleBinding /\ role.K8sRoleType = "Role"
  THEN "a ClusterRoleBinding cannot ref a Role"
  ELSE "ok"

ValidateRequest(role, namespace, clusterRoleBinding) ==
  IF ~StrListContains(role.K8sNamespaces, "*")
     /\ ~StrListContains(role.K8sNamespaces, namespace)
  THEN "namespace not allowed"
  ELSE IF clusterRoleBinding /\ makeRoleType(role.K8sRoleType) = "Role"
  THEN "a ClusterRoleBinding cannot ref a Role"
  ELSE "ok"

TheTTL_roleFirst(reqTTL, roleTTL) ==
  CASE roleTTL > 0 -> roleTTL
    [] reqTTL > 0 -> reqTTL
    [] OTHER -> SysDefaultTTL

TheTTL(reqTTL, roleTTL) ==
  CASE reqTTL > 0 -> reqTTL
    [] roleTTL > 0 -> roleTTL
    [] OTHER -> SysDefaultTTL

FirstStep_accountFirst(role) ==
  CASE role.ServiceAccountName # "" -> "createToken"
    [] role.K8sRoleName # "" -> "createServiceAccount"
    [] role.RoleRules # "" -> "createRole"
    [] OTHER -> "done"

FirstStep_accountCreated(role) ==
  CASE role.ServiceAccountName # "" -> "createServiceAccount"
    [] role.K8sRoleName # "" -> "createRoleBinding"
    [] role.RoleRules # "" -> "createRole"
    [] OTHER -> "done"

FirstStep(role) ==
  CASE role.ServiceAccountName # "" -> "createToken"
    [] role.K8sRoleName # "" -> "createRoleBinding"
    [] role.RoleRules # "" -> "createRole"
    [] OTHER -> "done"

NoResp ==
  [service_account_namespace |-> "", service_account_name |-> "",
   role |-> "", cluster_role_binding |-> FALSE,
   created_service_account |-> "", created_role_binding |-> "",
   created_role |-> "", created_role_type |-> "", TTL |-> 0, MaxTTL |-> 0]

IdleIssuance ==
  [pc |-> "idle", RoleName |-> "", role |-> nilRole, Namespace |-> "",
   ClusterRoleBinding |-> FALSE, TTL |-> 0, genName |-> "", theTTL |-> 0,
   roleWALId |-> NoWAL, bindingWALId |-> NoWAL, ownerRef |-> NoOwner,
   tokenTTL |-> 0, calls |-> <<>>, result |-> "none", errAt |-> "",
   resp |-> NoResp, renewed |-> "none"]

Fail(r, at) == [r EXCEPT !.pc = "done", !.result = "error", !.errAt = at]

(* The callers of getClient and the backend fields they share: the holders *)
(* of b.lock, the cached b.client (0 for nil, otherwise the handle), and   *)
(* the number of clients newClient has constructed.  ret is what a caller  *)
(* was handed: 0 nothing yet, -1 an error, otherwise the handle; err tells *)
(* which call gave the error; unlockFunc is the caller's local variable of *)
(* that name; misuse holds the callers that released a lock they did not   *)
(* hold.                                                                   *)
MaxCallers == 3

Callers == 1..MaxCallers

IdleGetClients ==
  [readers |-> {}, writer |-> 0, cache |-> 0, builds |-> 0,
   pc |-> [c \in Callers |-> "start"], ret |-> [c \in Callers |-> 0],
   unlockFunc |-> [c \in Callers |-> ""], err |-> [c \in Callers |-> ""],
   misuse |-> {}]

NoRevoke ==
  [attempted |-> {}, failed |-> {}, result |-> "none", again |-> FALSE]

Init ==
  /\ roles = StoredRoles
  /\ roleOp = NoRoleOp
  /\ getClients = IdleGetClients
  /\ unknownKind = {}
  /\ reqs \in InitWith(Requests, ConcurrentRequests)
  /\ cluster = PreExisting
  /\ wal = {}
  /\ iss = [i \in Issuances |-> IdleIssuance]
  /\ lease = [i \in Issuances |-> "none"]
  /\ rev = [i \in Issuances |-> NoRevoke]
  /\ discarded = {}
  /\ now = 0
  /\ client = "nil"

(* getClient: a cached client is returned; otherwise the client is built, *)
(* which can fail.                                                         *)
GetClient(ok) ==
  /\ (client = "built" => ok)
  /\ client' = IF ok THEN "built" ELSE "nil"

(* getClient step by step, for callers that run it concurrently.  The     *)
(* frame of every step: nothing but the lock, the cache and the callers.   *)
GetClientFrame ==
  UNCHANGED <<unknownKind, roles, roleOp, reqs, cluster, wal, iss, lease, rev,
              discarded, now, client>>

(* b.lock.RLock() and the deferred call of unlockFunc, which starts as     *)
(* b.lock.RUnlock: granted while no caller holds the write lock.           *)
RLock(c) ==
  /\ getClients.pc[c] = "start"
  /\ getClients.writer = 0
  /\ getClients' = [getClients EXCEPT !.readers = @ \cup {c},
                                      !.unlockFunc[c] = "RUnlock",
                                      !.pc[c] = "rlocked"]
  /\ GetClientFrame

(* The check of b.client under the read lock: a cached client is returned  *)
(* (the deferred call is still to run); otherwise b.lock.RUnlock().        *)
CheckCache(c) ==
  /\ getClients.pc[c] = "rlocked"
  /\ getClients' =
       IF getClients.cache # 0
       THEN [getClients EXCEPT !.pc[c] = "return",
                               !.ret[c] = getClients.cache]
       ELSE [getClients EXCEPT !.readers = @ \ {c}, !.pc[c] = "unlocked"]
  /\ GetClientFrame

Lock_keepsRUnlock(c) ==
  /\ getClients.pc[c] = "unlocked"
  /\ getClients.readers = {} /\ getClients.writer = 0
  /\ getClients' = [getClients EXCEPT !.writer = c, !.pc[c] = "wlocked"]
  /\ GetClientFrame

(* b.lock.Lock(), granted while no caller holds the lock in either mode,   *)
(* and unlockFunc = b.lock.Unlock.                                         *)
Lock(c) ==
  /\ getClients.pc[c] = "unlocked"
  /\ getClients.readers = {} /\ getClients.writer = 0
  /\ getClients' = [getClients EXCEPT !.writer = c,
                                      !.unlockFunc[c] = "Unlock",
                                      !.pc[c] = "wlocked"]
  /\ GetClientFrame

(* What configWithDynamicValues hands to getClient: an error, a nil        *)
(* configuration, or a configuration.                                      *)
ConfigOutcomes == {"error", "nil", "config"}

(* The rest of getClient under the write lock: the configuration is read,  *)
(* a nil configuration is replaced only while b.client is nil, and         *)
(* newClient's results are assigned to b.client and err; newOK tells       *)
(* whether kubernetes.NewForConfig succeeds.  The deferred call is still   *)
(* to run.                                                                 *)
Build(c) ==
  /\ getClients.pc[c] = "wlocked"
  /\ \E cfg \in ConfigOutcomes, newOK \in BOOLEAN :
       LET config == IF getClients.cache = 0 /\ cfg = "nil"
                     THEN "config" ELSE cfg
           handle == getClients.builds + 1
       IN getClients' =
            IF cfg = "error"
            THEN [getClients EXCEPT !.pc[c] = "return", !.ret[c] = -1,
                                    !.err[c] = "config"]
            ELSE IF config = "nil" \/ ~newOK
            THEN [getClients EXCEPT !.pc[c] = "return", !.ret[c] = -1,
                                    !.err[c] = "newClient", !.cache = 0]
            ELSE [getClients EXCEPT !.pc[c] = "return",
                                    !.ret[c] = handle, !.cache = handle,
                                    !.builds = handle]
  /\ GetClientFrame

(* The deferred func() { unlockFunc() } as getClient returns: RUnlock or   *)
(* Unlock, whichever unlockFunc holds.  Releasing a lock the caller does   *)
(* not hold is a fatal error of the runtime, recorded in misuse.           *)
Deferred(c) ==
  /\ getClients.pc[c] = "return"
  /\ getClients' =
       IF getClients.unlockFunc[c] = "RUnlock"
       THEN IF c \in getClients.readers
            THEN [getClients EXCEPT !.readers = @ \ {c}, !.pc[c] = "done"]
            ELSE [getClients EXCEPT !.misuse = @ \cup {c}, !.pc[c] = "done"]
       ELSE IF getClients.writer = c
            THEN [getClients EXCEPT !.writer = 0, !.pc[c] = "done"]
            ELSE [getClients EXCEPT !.misuse = @ \cup {c}, !.pc[c] = "done"]
  /\ GetClientFrame

(* pathCredentialsRead up to the first remote call of createCreds.        *)
Begin(i) ==
  /\ iss[i].pc = "idle"
  /\ \A j \in Issuances : j < i => iss[j].pc # "idle"
  /\ LET rn == reqs[i].RoleName
         ns == reqs[i].Namespace
         crb == reqs[i].ClusterRoleBinding
         ttl == reqs[i].TTL
     IN
       LET role == getRole(rn)
           r0 == [iss[i] EXCEPT !.RoleName = rn, !.role = role,
                                !.Namespace = ns, !.ClusterRoleBinding = crb,
                                !.TTL = ttl]
       IN IF rn \notin DOMAIN roles
          THEN /\ iss' = [iss EXCEPT ![i] = Fail(r0, "getRole")]
               /\ UNCHANGED client
          ELSE IF ValidateRequest(role, ns, crb) # "ok"
          THEN /\ iss' = [iss EXCEPT ![i] =
                         Fail(r0, ValidateRequest(role, ns, crb))]
               /\ UNCHANGED client
          ELSE \E ok \in BOOLEAN :
               /\ GetClient(ok)
               /\ IF ~ok
                  THEN iss' = [iss EXCEPT ![i] = Fail(r0, "getClient")]
                  ELSE LET r1 == [r0 EXCEPT !.genName = GenName(i),
                                            !.theTTL = TheTTL(ttl, role.TokenTTL)]
                       IN IF FirstStep(role) = "done"
                          THEN iss' = [iss EXCEPT ![i] = Fail(r1, "mode")]
                          ELSE iss' = [iss EXCEPT ![i] =
                                          [r1 EXCEPT !.pc = FirstStep(role)]]
  /\ UNCHANGED <<unknownKind, getClients, roles, roleOp, reqs, cluster, wal, lease, rev, discarded, now>>

(* client.createRole as called by createRoleWithWAL.                       *)
CreateRole(i) ==
  /\ iss[i].pc = "createRole"
  /\ LET r == iss[i]
         o == RoleObj(r.Namespace, r.genName, r.role.K8sRoleType, i)
         r1 == [r EXCEPT !.calls = Append(@, "createRole")]
     IN IF RoleKind(r.role.K8sRoleType) = ""
        THEN /\ iss' = [iss EXCEPT ![i] = Fail(r, "createRole")]
             /\ UNCHANGED cluster
        ELSE \E ok \in BOOLEAN :
             IF ok /\ ~Exists(cluster, o.Kind, o.Namespace, o.Name)
             THEN /\ cluster' = cluster \cup {o}
                  /\ iss' = [iss EXCEPT ![i] =
                       [r1 EXCEPT !.pc = "putRoleWAL",
                                  !.ownerRef = OwnerRefOf(o.Kind, o.Name, o.UID)]]
             ELSE /\ iss' = [iss EXCEPT ![i] = Fail(r1, "createRole")]
                  /\ UNCHANGED cluster
  /\ UNCHANGED <<unknownKind, getClients, roles, roleOp, reqs, wal, lease, rev, discarded, now, client>>

walRole_untyped(i, namespace, name, roleType) ==
  [id |-> <<i, walRoleKind>>, kind |-> walRoleKind, Namespace |-> namespace,
   Name |-> name, RoleType |-> "", IsCluster |-> FALSE,
   Expiration |-> now + maxWALAge]

walRole(i, namespace, name, roleType) ==
  [id |-> <<i, walRoleKind>>, kind |-> walRoleKind, Namespace |-> namespace,
   Name |-> name, RoleType |-> roleType, IsCluster |-> FALSE,
   Expiration |-> now + maxWALAge]

walRoleBinding_expiresAtOnce(i, namespace, name, isCluster) ==
  [id |-> <<i, walBindingKind>>, kind |-> walBindingKind, Namespace |-> namespace,
   Name |-> name, RoleType |-> "", IsCluster |-> isCluster,
   Expiration |-> now]

walRoleBinding(i, namespace, name, isCluster) ==
  [id |-> <<i, walBindingKind>>, kind |-> walBindingKind, Namespace |-> namespace,
   Name |-> name, RoleType |-> "", IsCluster |-> isCluster,
   Expiration |-> now + maxWALAge]

(* framework.PutWAL in createRoleWithWAL, after the role was created.      *)
PutRoleWAL(i) ==
  /\ iss[i].pc = "putRoleWAL"
  /\ LET r == iss[i]
         e == walRole(i, r.Namespace, r.genName, r.role.K8sRoleType)
     IN \E ok \in BOOLEAN :
        IF ok
        THEN /\ wal' = wal \cup {e}
             /\ iss' = [iss EXCEPT ![i] =
                  [r EXCEPT !.pc = "createRoleBinding", !.roleWALId = e.id]]
        ELSE /\ iss' = [iss EXCEPT ![i] = Fail(r, "putRoleWAL")]
             /\ UNCHANGED wal
  /\ UNCHANGED <<unknownKind, getClients, roles, roleOp, reqs, cluster, lease, rev, discarded, now, client>>

(* client.createRoleBinding: from createRoleBindingWithWAL (existing role, *)
(* no owner) or from createRoleBinding (generated role, owned by it).      *)
CreateRoleBinding(i) ==
  /\ iss[i].pc = "createRoleBinding"
  /\ LET r == iss[i]
         withWAL == r.role.K8sRoleName # ""
         owner == IF withWAL THEN NoOwner ELSE r.ownerRef
         o == BindingObj(r.Namespace, r.genName, r.ClusterRoleBinding, owner, i)
         r1 == [r EXCEPT !.calls = Append(@, "createRoleBinding")]
     IN \E ok \in BOOLEAN :
        IF ok /\ ~Exists(cluster, o.Kind, o.Namespace, o.Name)
        THEN /\ cluster' = cluster \cup {o}
             /\ iss' = [iss EXCEPT ![i] =
                  IF withWAL
                  THEN [r1 EXCEPT !.pc = "putBindingWAL",
                                  !.ownerRef = OwnerRefOf(o.Kind, o.Name, o.UID)]
                  ELSE [r1 EXCEPT !.pc = "createServiceAccount"]]
        ELSE /\ iss' = [iss EXCEPT ![i] = Fail(r1, "createRoleBinding")]
             /\ UNCHANGED cluster
  /\ UNCHANGED <<unknownKind, getClients, roles, roleOp, reqs, wal, lease, rev, discarded, now, client>>

(* framework.PutWAL in createRoleBindingWithWAL, after the create.         *)
PutBindingWAL(i) ==
  /\ iss[i].pc = "putBindingWAL"
  /\ LET r == iss[i]
         e == walRoleBinding(i, r.Namespace, r.genName, r.ClusterRoleBinding)
     IN \E ok \in BOOLEAN :
        IF ok
        THEN /\ wal' = wal \cup {e}
             /\ iss' = [iss EXCEPT ![i] =
                  [r EXCEPT !.pc = "createServiceAccount", !.bindingWALId = e.id]]
        ELSE /\ iss' = [iss EXCEPT ![i] = Fail(r, "putBindingWAL")]
             /\ UNCHANGED wal
  /\ UNCHANGED <<unknownKind, getClients, roles, roleOp, reqs, cluster, lease, rev, discarded, now, client>>

(* createServiceAccount: the account is owned by the ownerRef in hand.     *)
CreateServiceAccount(i) ==
  /\ iss[i].pc = "createServiceAccount"
  /\ LET r == iss[i]
         o == ServiceAccountObj(r.Namespace, r.genName, r.ownerRef, i)
         r1 == [r EXCEPT !.calls = Append(@, "createServiceAccount")]
     IN \E ok \in BOOLEAN :
        IF ok /\ ~Exists(cluster, o.Kind, o.Namespace, o.Name)
        THEN /\ cluster' = cluster \cup {o}
             /\ iss' = [iss EXCEPT ![i] = [r1 EXCEPT !.pc = "createToken"]]
        ELSE /\ iss' = [iss EXCEPT ![i] = Fail(r1, "createServiceAccount")]
             /\ UNCHANGED cluster
  /\ UNCHANGED <<unknownKind, getClients, roles, roleOp, reqs, wal, lease, rev, discarded, now, client>>

(* The response createCreds builds once the token is in hand.              *)
Response_recordsExistingRole(r) ==
  LET existingSA == r.role.ServiceAccountName # ""
  IN [service_account_namespace |-> r.Namespace,
      service_account_name |->
        IF existingSA THEN r.role.ServiceAccountName ELSE r.genName,
      role |-> r.RoleName,
      cluster_role_binding |-> r.ClusterRoleBinding,
      created_service_account |-> IF existingSA THEN "" ELSE r.genName,
      created_role_binding |-> IF existingSA THEN "" ELSE r.genName,
      created_role |->
        IF r.role.RoleRules # "" THEN r.genName ELSE r.role.K8sRoleName,
      created_role_type |-> r.role.K8sRoleType,
      TTL |-> r.theTTL,
      MaxTTL |-> IF r.role.TokenMaxTTL > 0 THEN r.role.TokenMaxTTL ELSE 0]

Response_cappedTTL(r) ==
  LET existingSA == r.role.ServiceAccountName # ""
      generated == r.role.RoleRules # ""
  IN [service_account_namespace |-> r.Namespace,
      service_account_name |->
        IF existingSA THEN r.role.ServiceAccountName ELSE r.genName,
      role |-> r.RoleName,
      cluster_role_binding |-> r.ClusterRoleBinding,
      created_service_account |-> IF existingSA THEN "" ELSE r.genName,
      created_role_binding |-> IF existingSA THEN "" ELSE r.genName,
      created_role |-> IF generated THEN r.genName ELSE "",
      created_role_type |-> r.role.K8sRoleType,
      TTL |-> IF r.role.TokenMaxTTL > 0 /\ r.role.TokenMaxTTL < r.theTTL
              THEN r.role.TokenMaxTTL ELSE r.theTTL,
      MaxTTL |-> IF r.role.TokenMaxTTL > 0 THEN r.role.TokenMaxTTL ELSE 0]

Response(r) ==
  LET existingSA == r.role.ServiceAccountName # ""
      generated == r.role.RoleRules # ""
  IN [service_account_namespace |-> r.Namespace,
      service_account_name |->
        IF existingSA THEN r.role.ServiceAccountName ELSE r.genName,
      role |-> r.RoleName,
      cluster_role_binding |-> r.ClusterRoleBinding,
      created_service_account |-> IF existingSA THEN "" ELSE r.genName,
      created_role_binding |-> IF existingSA THEN "" ELSE r.genName,
      created_role |-> IF generated THEN r.genName ELSE "",
      created_role_type |-> r.role.K8sRoleType,
      TTL |-> r.theTTL,
      MaxTTL |-> IF r.role.TokenMaxTTL > 0 THEN r.role.TokenMaxTTL ELSE 0]

CreateToken_cleansOnFailure(i) ==
  /\ iss[i].pc = "createToken"
  /\ LET r == iss[i]
         sa == IF r.role.ServiceAccountName # ""
               THEN r.role.ServiceAccountName ELSE r.genName
         r1 == [r EXCEPT !.calls = Append(@, "createToken")]
     IN \E ok \in BOOLEAN :
        IF ok /\ Exists(cluster, "ServiceAccount", r.Namespace, sa)
        THEN /\ iss' = [iss EXCEPT ![i] =
                  [r1 EXCEPT !.pc = "deleteWALs", !.tokenTTL = r.theTTL,
                             !.resp = Response(r)]]
             /\ UNCHANGED wal
        ELSE /\ iss' = [iss EXCEPT ![i] = Fail(r1, "createToken")]
             /\ wal' = { e \in wal : e.id \notin {r.roleWALId, r.bindingWALId} }
  /\ UNCHANGED <<unknownKind, getClients, roles, roleOp, reqs, cluster, lease, rev, discarded, now, client>>

(* client.createToken: a token of lifetime theTTL for the account.         *)
CreateToken(i) ==
  /\ iss[i].pc = "createToken"
  /\ LET r == iss[i]
         sa == IF r.role.ServiceAccountName # ""
               THEN r.role.ServiceAccountName ELSE r.genName
         r1 == [r EXCEPT !.calls = Append(@, "createToken")]
     IN \E ok \in BOOLEAN :
        IF ok /\ Exists(cluster, "ServiceAccount", r.Namespace, sa)
        THEN iss' = [iss EXCEPT ![i] =
               [r1 EXCEPT !.pc = "deleteWALs", !.tokenTTL = r.theTTL,
                          !.resp = Response(r)]]
        ELSE iss' = [iss EXCEPT ![i] = Fail(r1, "createToken")]
  /\ UNCHANGED <<unknownKind, getClients, roles, roleOp, reqs, cluster, wal, lease, rev, discarded, now, client>>

(* The WAL ids the deletion loop of createCreds walks.                      *)
WALIdsToDelete_roleOnly(r) == {r.roleWALId} \ {NoWAL}

WALIdsToDelete(r) == {r.roleWALId, r.bindingWALId} \ {NoWAL}

(* The WAL deletion loop of createCreds and its return.                    *)
DeleteWALs(i) ==
  /\ iss[i].pc = "deleteWALs"
  /\ LET r == iss[i]
         ids == WALIdsToDelete(r)
     IN \E failed \in SUBSET ids :
        /\ wal' = { e \in wal : e.id \notin (ids \ failed) }
        /\ IF failed # {}
           THEN /\ iss' = [iss EXCEPT ![i] =
                     [Fail(r, "deleteWAL") EXCEPT !.resp = NoResp]]
                /\ UNCHANGED lease
           ELSE /\ iss' = [iss EXCEPT ![i] =
                     [r EXCEPT !.pc = "done", !.result = "ok"]]
                /\ lease' = [lease EXCEPT ![i] = "active"]
  /\ UNCHANGED <<unknownKind, getClients, roles, roleOp, reqs, cluster, rev, discarded, now, client>>

(* The process stops between two steps of an issuance.                     *)
Crash(i) ==
  /\ iss[i].pc \notin {"idle", "done", "crashed"}
  /\ iss' = [iss EXCEPT ![i].pc = "crashed"]
  /\ UNCHANGED <<unknownKind, getClients, roles, roleOp, reqs, cluster, wal, lease, rev, discarded, now, client>>

----------------------------------------------------------------------------
(* WAL recovery: the host's sweep calls walRollback for a stored entry and *)
(* deletes the entry when walRollback returns nil.                         *)

RollbackTarget_namespacedOnly(c, e) ==
  IF e.kind = walRoleKind
  THEN deleteRole(c, e.Namespace, e.Name, e.RoleType)
  ELSE deleteRoleBinding(c, e.Namespace, e.Name, FALSE)

RollbackTarget(c, e) ==
  IF e.kind = walRoleKind
  THEN deleteRole(c, e.Namespace, e.Name, e.RoleType)
  ELSE deleteRoleBinding(c, e.Namespace, e.Name, e.IsCluster)

TargetExists(c, e) ==
  IF e.kind = walRoleKind
  THEN RoleExists(c, e.Namespace, e.Name, e.RoleType)
  ELSE RoleBindingExists(c, e.Namespace, e.Name, e.IsCluster)

(* The error of the delete walRollback attempts for entry e.               *)
RollbackErr(c, e, delOK) ==
  \/ e.kind = walRoleKind /\ RoleKind(e.RoleType) = ""
  \/ deleteErr(RemoteDelete(TargetExists(c, e), ~delOK))

SweepCall_neverDiscards(e, cok, delOK) ==
  /\ e \in wal
  /\ GetClient(cok)
  /\ IF ~cok
     THEN UNCHANGED <<cluster, wal, discarded>>
     ELSE IF ~RollbackErr(cluster, e, delOK)
     THEN /\ cluster' = RollbackTarget(cluster, e)
          /\ wal' = wal \ {e}
          /\ UNCHANGED discarded
     ELSE UNCHANGED <<cluster, wal, discarded>>
  /\ UNCHANGED <<unknownKind, getClients, roles, roleOp, reqs, iss, lease, rev, now>>

SweepCall_discardsUnexpired(e, cok, delOK) ==
  /\ e \in wal
  /\ GetClient(cok)
  /\ IF ~cok
     THEN UNCHANGED <<cluster, wal, discarded>>
     ELSE IF ~RollbackErr(cluster, e, delOK)
     THEN /\ cluster' = RollbackTarget(cluster, e)
          /\ wal' = wal \ {e}
          /\ UNCHANGED discarded
     ELSE /\ wal' = wal \ {e}
          /\ discarded' = discarded \cup {e.id}
          /\ UNCHANGED cluster
  /\ UNCHANGED <<unknownKind, getClients, roles, roleOp, reqs, iss, lease, rev, now>>

(* One call of walRollback for entry e: cok tells whether getClient        *)
(* succeeds, delOK whether the cluster's API answers the delete.           *)
SweepCall(e, cok, delOK) ==
  /\ e \in wal
  /\ GetClient(cok)
  /\ IF ~cok
     THEN UNCHANGED <<cluster, wal, discarded>>
     ELSE IF ~RollbackErr(cluster, e, delOK)
     THEN /\ cluster' = RollbackTarget(cluster, e)
          /\ wal' = wal \ {e}
          /\ UNCHANGED discarded
     ELSE IF now > e.Expiration
     THEN /\ wal' = wal \ {e}
          /\ discarded' = discarded \cup {e.id}
          /\ UNCHANGED cluster
     ELSE UNCHANGED <<cluster, wal, discarded>>
  /\ UNCHANGED <<unknownKind, getClients, roles, roleOp, reqs, iss, lease, rev, now>>

(* The kind tags walRollback knows.                                        *)
WALKinds == {walRoleKind, walBindingKind}

walRollback_defaultBinding(e, cok, delOK) == SweepCall(e, cok, delOK)

(* walRollback: the switch on the entry's kind tag.  A known kind goes to  *)
(* its rollback function; any other returns the error "unknown rollback    *)
(* type" before the payload is decoded or a client obtained, and           *)
(* unknownKind keeps the ids of the entries that got that error.           *)
walRollback(e, cok, delOK) ==
  IF e.kind \in WALKinds
  THEN SweepCall(e, cok, delOK)
  ELSE /\ e \in wal
       /\ unknownKind' = unknownKind \cup {e.id}
       /\ UNCHANGED <<getClients, roles, roleOp, reqs, cluster, wal, iss, lease,
                      rev, discarded, now, client>>

Sweep(e) == \E cok \in BOOLEAN, delOK \in BOOLEAN : walRollback(e, cok, delOK)

(* walRollback returned nil for entry e after its delete, and the host     *)
(* failed to delete the entry: the entry stays for a later sweep.          *)
SweepEntryKept(e) ==
  /\ e \in wal
  /\ GetClient(TRUE)
  /\ ~RollbackErr(cluster, e, TRUE)
  /\ cluster' = RollbackTarget(cluster, e)
  /\ UNCHANGED <<unknownKind, getClients, roles, roleOp, reqs, wal, iss, lease, rev, discarded, now>>

----------------------------------------------------------------------------
(* Revocation: kubeTokenRevoke on the internal data of a lease.            *)

Opt(b, x) == IF b THEN {x} ELSE {}

(* One call of kubeTokenRevoke on the internal data of issuance i's lease: *)
(* cok tells whether getClient succeeds, fb, fs and fr whether the         *)
(* cluster's API fails the delete of the binding, the account, the role;   *)
(* a delete that is not reached has no outcome to choose.                  *)
RevokeCall_roleFirst(i, cok, fb, fs, fr) ==
  /\ LET d == iss[i].resp
         ns == d.service_account_namespace
         hasB == d.created_role_binding # ""
         hasS == d.created_service_account # ""
         hasR == d.created_role # ""
         again == lease[i] = "revoked"
         c1 == IF hasR
               THEN deleteRole(cluster, ns, d.created_role, d.created_role_type)
               ELSE cluster
         c2 == IF hasB
               THEN deleteRoleBinding(c1, ns, d.created_role_binding,
                      d.cluster_role_binding)
               ELSE c1
         c3 == IF hasS
               THEN deleteServiceAccount(c2, ns, d.created_service_account)
               ELSE c2
         errR == hasR /\
                   (\/ RoleKind(d.created_role_type) = ""
                    \/ deleteErr(RemoteDelete(
                         RoleExists(cluster, ns, d.created_role,
                           d.created_role_type), fr)))
         errB == hasB /\ deleteErr(RemoteDelete(
                   RoleBindingExists(c1, ns, d.created_role_binding,
                     d.cluster_role_binding), fb))
         errS == hasS /\ deleteErr(RemoteDelete(
                   ServiceAccountExists(c2, ns, d.created_service_account), fs))
         failedAt(att, f, c) ==
           /\ rev' = [rev EXCEPT ![i] =
                [attempted |-> att, failed |-> f, result |-> "error",
                 again |-> again]]
           /\ cluster' = c
           /\ UNCHANGED lease
     IN /\ GetClient(cok)
        /\ (~hasB => ~fb) /\ (~hasS => ~fs) /\ (~hasR => ~fr)
        /\ IF ~cok THEN failedAt({}, {}, cluster)
           ELSE IF errR THEN failedAt({"role"}, {"role"}, cluster)
           ELSE IF errB
           THEN failedAt(Opt(hasR, "role") \cup {"binding"}, {"binding"}, c1)
           ELSE IF errS
           THEN failedAt(Opt(hasR, "role") \cup Opt(hasB, "binding")
                           \cup {"serviceAccount"}, {"serviceAccount"}, c2)
           ELSE /\ rev' = [rev EXCEPT ![i] =
                     [attempted |-> Opt(hasB, "binding")
                                    \cup Opt(hasS, "serviceAccount")
                                    \cup Opt(hasR, "role"),
                      failed |-> {}, result |-> "ok", again |-> again]]
                /\ cluster' = c3
                /\ lease' = [lease EXCEPT ![i] = "revoked"]
  /\ UNCHANGED <<unknownKind, getClients, roles, roleOp, reqs, wal, iss, discarded, now>>

RevokeCall(i, cok, fb, fs, fr) ==
  /\ LET d == iss[i].resp
         ns == d.service_account_namespace
         hasB == d.created_role_binding # ""
         hasS == d.created_service_account # ""
         hasR == d.created_role # ""
         again == lease[i] = "revoked"
     IN /\ GetClient(cok)
        /\ (~hasB => ~fb) /\ (~hasS => ~fs) /\ (~hasR => ~fr)
        /\ (~cok => ~fb) /\ (~cok \/ fb => ~fs) /\ (~cok \/ fb \/ fs => ~fr)
        /\ IF ~cok
           THEN /\ rev' = [rev EXCEPT ![i] =
                     [attempted |-> {}, failed |-> {}, result |-> "error", again |-> again]]
                /\ UNCHANGED <<cluster, lease>>
           ELSE LET c1 == IF hasB
                          THEN deleteRoleBinding(cluster, ns,
                                 d.created_role_binding, d.cluster_role_binding)
                          ELSE cluster
                    c2 == IF hasS
                          THEN deleteServiceAccount(c1, ns,
                                 d.created_service_account)
                          ELSE c1
                    c3 == IF hasR
                          THEN deleteRole(c2, ns, d.created_role,
                                 d.created_role_type)
                          ELSE c2
                    errB == hasB /\ deleteErr(RemoteDelete(
                              RoleBindingExists(cluster, ns,
                                d.created_role_binding, d.cluster_role_binding),
                              fb))
                    errS == hasS /\ deleteErr(RemoteDelete(
                              ServiceAccountExists(c1, ns,
                                d.created_service_account), fs))
                    errR == hasR /\
                              (\/ RoleKind(d.created_role_type) = ""
                               \/ deleteErr(RemoteDelete(
                                    RoleExists(c2, ns, d.created_role,
                                      d.created_role_type), fr)))
                IN IF errB
                   THEN /\ rev' = [rev EXCEPT ![i] =
                             [attempted |-> {"binding"}, failed |-> {"binding"},
                              result |-> "error", again |-> again]]
                        /\ UNCHANGED <<cluster, lease>>
                   ELSE IF errS
                   THEN /\ rev' = [rev EXCEPT ![i] =
                             [attempted |-> Opt(hasB, "binding")
                                            \cup {"serviceAccount"},
                              failed |-> {"serviceAccount"}, result |-> "error", again |-> again]]
                        /\ cluster' = c1
                        /\ UNCHANGED lease
                   ELSE IF errR
                   THEN /\ rev' = [rev EXCEPT ![i] =
                             [attempted |-> Opt(hasB, "binding")
                                            \cup Opt(hasS, "serviceAccount")
                                            \cup {"role"},
                              failed |-> {"role"}, result |-> "error", again |-> again]]
                        /\ cluster' = c2
                        /\ UNCHANGED lease
                   ELSE /\ rev' = [rev EXCEPT ![i] =
                             [attempted |-> Opt(hasB, "binding")
                                            \cup Opt(hasS, "serviceAccount")
                                            \cup Opt(hasR, "role"),
                              failed |-> {}, result |-> "ok", again |-> again]]
                        /\ cluster' = c3
                        /\ lease' = [lease EXCEPT ![i] = "revoked"]
  /\ UNCHANGED <<unknownKind, getClients, roles, roleOp, reqs, wal, iss, discarded, now>>

Revoke(i) ==
  /\ lease[i] = "active"
  /\ \E cok \in BOOLEAN, fb \in BOOLEAN, fs \in BOOLEAN, fr \in BOOLEAN :
       RevokeCall(i, cok, fb, fs, fr)

(* The host revokes a lease again that kubeTokenRevoke already revoked.    *)
RevokeAgain(i) ==
  /\ lease[i] = "revoked"
  /\ \E cok \in BOOLEAN, fb \in BOOLEAN, fs \in BOOLEAN, fr \in BOOLEAN :
       RevokeCall(i, cok, fb, fs, fr)

(* kubeTokenRenew called for the active lease of issuance i, whose secret  *)
(* is the one createCreds returned and so carries the "role" internal      *)
(* data; storageOK tells whether getRole can read the storage.  The        *)
(* response the function builds shares the request's secret, so the TTLs   *)
(* it assigns are written to that secret; what it returns is recorded in   *)
(* renewed: "nil" for a nil response with a nil error, "error" for an       *)
(* error.                                                                  *)
kubeTokenRenew(i, storageOK) ==
  /\ lease[i] = "active"
  /\ LET name == iss[i].resp.role
         role == getRole(name)
     IN IF ~storageOK
        THEN iss' = [iss EXCEPT ![i].renewed = "error"]
        ELSE IF name \notin DOMAIN roles
        THEN iss' = [iss EXCEPT ![i].renewed = "nil"]
        ELSE iss' = [iss EXCEPT ![i].renewed = "nil",
                                ![i].resp.TTL = role.TokenTTL,
                                ![i].resp.MaxTTL = role.TokenMaxTTL]
  /\ UNCHANGED <<unknownKind, getClients, roles, roleOp, reqs, cluster, wal, lease, rev, discarded,
                 now, client>>

----------------------------------------------------------------------------
(* Environment: the cluster's garbage collector removes an object whose    *)
(* owner reference names an object that no longer exists; time passes.     *)

OwnerExists(c, ref) ==
  \E o \in c : o.Kind = ref.Kind /\ o.Name = ref.Name /\ o.UID = ref.UID

GarbageCollect(o) ==
  /\ o \in cluster
  /\ o.Owner # NoOwner
  /\ ~OwnerExists(cluster, o.Owner)
  /\ cluster' = cluster \ {o}
  /\ UNCHANGED <<unknownKind, getClients, roles, roleOp, reqs, wal, iss, lease, rev, discarded, now, client>>

Tick ==
  /\ now < MaxTime
  /\ now' = now + 1
  /\ UNCHANGED <<unknownKind, getClients, roles, roleOp, reqs, cluster, wal, iss, lease, rev, discarded, client>>

----------------------------------------------------------------------------
(* The host's lease engine: the lease lasts the secret's TTL, cut down to  *)
(* the secret's max TTL when one is attached and to the system max TTL.    *)

Min(a, b) == IF a < b THEN a ELSE b

LeaseDuration(d) ==
  Min(IF d.MaxTTL > 0 THEN Min(d.TTL, d.MaxTTL) ELSE d.TTL, SysMaxTTL)

----------------------------------------------------------------------------
(* Properties.                                                             *)

WALOf(i) == { e \in wal : e.id[1] = i }
ObjectsOf(i) == { o \in cluster : o.UID = i }

FailedAfterCreate(i) ==
  /\ iss[i].pc = "done" /\ iss[i].result = "error"
  /\ iss[i].errAt \in {"createRoleBinding", "createServiceAccount", "createToken"}
  /\ Len(iss[i].calls) >= 2

\* C1: after an issuance on the existing-role or generated-rules path has
\* failed at a later create or at the token request, the recovery sweep
\* eventually leaves no object created by that issuance in the cluster.
C1_EventualCleanup ==
  \A i \in Issuances :
    [](FailedAfterCreate(i) => <>(ObjectsOf(i) = {}))

\* C1 (amended): the same, unless a rollback of one of its WAL entries
\* failed after the entry's expiration and the entry was discarded.
C1_CleanupUnlessDiscarded ==
  \A i \in Issuances :
    [](FailedAfterCreate(i) =>
         <>(ObjectsOf(i) = {} \/ \E id \in discarded : id[1] = i))

C1_Witness ==
  \E i \in Issuances :
    /\ FailedAfterCreate(i)
    /\ iss[i].errAt = "createToken" /\ iss[i].role.RoleRules # ""
    /\ iss[i].roleWALId # NoWAL
    /\ ObjectsOf(i) = {} /\ WALOf(i) = {} /\ discarded = {}

\* C2: once an issuance has returned success, storage holds no WAL entry
\* written by that issuance.
C2_NoWALAfterSuccess ==
  \A i \in Issuances : iss[i].result = "ok" => WALOf(i) = {}

C2_Witness ==
  \E i \in Issuances : iss[i].result = "ok" /\ iss[i].bindingWALId # NoWAL

Names(e, o) ==
  /\ e.Name = o.Name
  /\ \/ /\ e.kind = walRoleKind
        /\ o.Kind = RoleKind(e.RoleType)
        /\ o.Namespace = (IF o.Kind = "Role" THEN e.Namespace ELSE "")
     \/ /\ e.kind = walBindingKind
        /\ o.Kind = (IF e.IsCluster THEN "ClusterRoleBinding" ELSE "RoleBinding")
        /\ o.Namespace = (IF e.IsCluster THEN "" ELSE e.Namespace)

\* C3: every Role/ClusterRole and RoleBinding/ClusterRoleBinding that exists
\* because of an unfinished issuance (in progress or crashed) is named by a
\* WAL entry in storage, the entry having been written before the create.
C3_WALBeforeCreate ==
  \A i \in Issuances :
    iss[i].pc \notin {"idle", "done"} =>
      \A o \in ObjectsOf(i) :
        o.Kind \in {"Role", "ClusterRole", "RoleBinding", "ClusterRoleBinding"}
          => \E e \in wal : Names(e, o)

Marked(d) ==
  Opt(d.created_role_binding # "", "binding")
    \cup Opt(d.created_service_account # "", "serviceAccount")
    \cup Opt(d.created_role # "", "role")

\* C4: a Revoke in which a deletion failed has still attempted the deletion
\* of every object its bookkeeping marks as created.
C4_RevokeAttemptsAll ==
  \A i \in Issuances :
    rev[i].failed # {} => rev[i].attempted = Marked(iss[i].resp)

NamedBy(d, o) ==
  \/ /\ o.Kind \in {"RoleBinding", "ClusterRoleBinding"}
     /\ d.created_role_binding # "" /\ o.Name = d.created_role_binding
  \/ /\ o.Kind = "ServiceAccount"
     /\ d.created_service_account # "" /\ o.Name = d.created_service_account
  \/ /\ o.Kind \in {"Role", "ClusterRole"}
     /\ d.created_role # "" /\ o.Name = d.created_role

(* A step of kubeTokenRevoke for the active lease of issuance i: no other  *)
(* operation writes the revocation record of an active lease.              *)
RevokeStep(i) == lease[i] = "active" /\ rev'[i] # rev[i]

\* C5: a Revoke step deletes only objects whose bookkeeping name is
\* non-empty, leaves every pre-existing object (the Role/ClusterRole named by
\* kubernetes_role_name, the account named by service_account_name) in
\* place, and changes nothing in the cluster when all bookkeeping is empty.
C5_RevokeOnlyBookkept ==
  [][\A i \in Issuances :
       RevokeStep(i) =>
         /\ cluster' \subseteq cluster
         /\ \A o \in cluster \ cluster' : NamedBy(iss[i].resp, o)
         /\ \A o \in PreExisting : o \in cluster => o \in cluster'
         /\ (Marked(iss[i].resp) = {} =>
               cluster' = cluster /\ rev'[i].attempted = {})]_vars

C5_Witness ==
  \E i \in Issuances :
    /\ lease[i] = "revoked"
    /\ iss[i].role.K8sRoleName # ""
    /\ PreExisting \subseteq cluster

\* C6: a successful Revoke of a credential issued on the generated-rules
\* path leaves none of the objects that issuance created in the cluster and
\* leaves every other object as it was.
C6_RoundTrip ==
  [][\A i \in Issuances :
       (RevokeStep(i) /\ lease'[i] = "revoked" /\ iss[i].role.RoleRules # "") =>
         cluster' = { o \in cluster : o.UID # i }]_vars

C6_Witness ==
  \E i \in Issuances :
    /\ lease[i] = "revoked"
    /\ iss[i].role.RoleRules # ""
    /\ iss[i].role.K8sRoleType = "RolE"
    /\ ObjectsOf(i) = {}

NoSideEffect(i) ==
  /\ iss[i].pc = "done" /\ iss[i].result = "error"
  /\ iss[i].calls = <<>>
  /\ WALOf(i) = {} /\ ObjectsOf(i) = {}
  /\ iss[i].roleWALId = NoWAL /\ iss[i].bindingWALId = NoWAL
  /\ lease[i] = "none"

Started(i) == iss[i].pc # "idle" /\ iss[i].RoleName \in DOMAIN roles

\* C7: a request whose namespace is not in the role's allowed namespaces,
\* the set not containing "*", is rejected with no remote call, no WAL entry
\* and no created object; with "*" in the set no namespace is refused.
C7_NamespaceValidated ==
  \A i \in Issuances :
    Started(i) =>
      /\ ("*" \notin iss[i].role.K8sNamespaces
            /\ iss[i].Namespace \notin iss[i].role.K8sNamespaces)
           => (NoSideEffect(i) /\ roles = StoredRoles)
      /\ "*" \in iss[i].role.K8sNamespaces
           => iss[i].errAt # "namespace not allowed"

C7_Witness ==
  \E i \in Issuances :
    iss[i].errAt = "namespace not allowed" /\ iss[i].Namespace = "ns2"

RoleSpellings == {"Role", "role", "RolE"}
ClusterRoleSpellings == {"ClusterRole", "clusterrole", "Clusterrole"}

\* C8: a request with the cluster-scoped-binding flag against a role whose
\* type is Role in any letter case is rejected with no remote call, no WAL
\* entry and no created object; against a ClusterRole-typed role (namespace
\* allowed) it passes validation.
C8_ClusterBindingValidated ==
  \A i \in Issuances :
    (Started(i) /\ iss[i].ClusterRoleBinding) =>
      /\ iss[i].role.K8sRoleType \in RoleSpellings
           => (NoSideEffect(i) /\ roles = StoredRoles)
      /\ (iss[i].role.K8sRoleType \in ClusterRoleSpellings
            /\ ("*" \in iss[i].role.K8sNamespaces
                  \/ iss[i].Namespace \in iss[i].role.K8sNamespaces))
           => iss[i].errAt \notin {"namespace not allowed",
                                   "a ClusterRoleBinding cannot ref a Role"}

C8_Witness ==
  \E i \in Issuances :
    /\ iss[i].errAt = "a ClusterRoleBinding cannot ref a Role"
    /\ iss[i].role.K8sRoleType = "RolE"

\* C9: the resolved TTL is the request TTL when that is non-zero, else the
\* role's default TTL when that is non-zero, else the system default lease
\* TTL; it is the TTL of the returned secret.
C9_TTLResolution ==
  \A i \in Issuances :
    iss[i].genName # "" =>
      LET r == iss[i]
          expected == IF r.TTL # 0 THEN r.TTL
                      ELSE IF r.role.TokenTTL # 0 THEN r.role.TokenTTL
                      ELSE SysDefaultTTL
      IN /\ r.theTTL = expected
         /\ r.result = "ok" => r.resp.TTL = expected

C9_Witness ==
  \E i \in Issuances :
    /\ iss[i].result = "ok"
    /\ iss[i].TTL # 0 /\ iss[i].role.TokenTTL # 0
    /\ iss[i].TTL # iss[i].role.TokenTTL
    /\ iss[i].resp.TTL = iss[i].TTL

\* C10: for every successful issuance the lease duration and the lifetime
\* of the issued token are equal, and neither exceeds the role's max TTL
\* (when set) nor the system max lease TTL.
C10_TokenMatchesLease ==
  \A i \in Issuances :
    iss[i].result = "ok" =>
      /\ iss[i].tokenTTL = LeaseDuration(iss[i].resp)
      /\ iss[i].tokenTTL <= SysMaxTTL
      /\ iss[i].role.TokenMaxTTL > 0 => iss[i].tokenTTL <= iss[i].role.TokenMaxTTL

\* C11: on every issuance path the TTL given to the token request is the
\* TTL set on the returned secret, and the secret's max TTL is the role's max
\* TTL when that is non-zero and is unset (zero) otherwise.
C11_TokenTTLIsSecretTTL ==
  \A i \in Issuances :
    iss[i].result = "ok" =>
      /\ iss[i].tokenTTL = iss[i].theTTL
      /\ iss[i].resp.TTL = iss[i].tokenTTL
      /\ iss[i].resp.MaxTTL = iss[i].role.TokenMaxTTL

C11_Witness ==
  \E i \in Issuances :
    /\ iss[i].result = "ok"
    /\ iss[i].role.K8sRoleName # ""
    /\ iss[i].role.TokenMaxTTL > 0
    /\ iss[i].tokenTTL > iss[i].role.TokenMaxTTL
    /\ iss[i].resp.TTL = iss[i].tokenTTL
    /\ iss[i].resp.MaxTTL = iss[i].role.TokenMaxTTL

(* A step that is a role write: the request is the one roleOp' records.   *)
WriteStep == roleOp'.op = "write" /\ pathRolesWrite(roleOp'.name, roleOp'.d)

Merged == MergeRole(getRole(roleOp'.name), roleOp'.d)

TargetCount(entry) ==
  (IF entry.ServiceAccountName # "" THEN 1 ELSE 0)
    + (IF entry.K8sRoleName # "" THEN 1 ELSE 0)
    + (IF entry.RoleRules # "" THEN 1 ELSE 0)

\* C12: every role in storage has exactly one of service_account_name,
\* kubernetes_role_name and generated_role_rules non-empty, and a write whose
\* merged entry has none or more than one of them set returns an error and
\* leaves storage unchanged.
C12_ExactlyOneTarget ==
  /\ [](\A n \in DOMAIN roles : TargetCount(roles[n]) = 1)
  /\ [][(WriteStep /\ TargetCount(Merged) # 1)
          => (roles' = roles /\ roleOp'.err # "")]_vars

C12_Witness ==
  /\ roleOp.op = "write" /\ roleOp.err = errOnlyOne
  /\ roleOp.name \in DOMAIN roles
  /\ DOMAIN roleOp.d = {"service_account_name"}
  /\ roles[roleOp.name].RoleRules # ""

TTLsOrdered(entry) ==
  ~(entry.TokenTTL > 0 /\ entry.TokenMaxTTL > 0
      /\ entry.TokenTTL > entry.TokenMaxTTL)

\* C13: no stored role has a non-zero default TTL greater than its non-zero
\* max TTL, and a write whose merged entry would have one returns an error
\* and leaves storage unchanged.
C13_DefaultTTLWithinMax ==
  /\ [](\A n \in DOMAIN roles : TTLsOrdered(roles[n]))
  /\ [][(WriteStep /\ ~TTLsOrdered(Merged))
          => (roles' = roles /\ roleOp'.err # "")]_vars

Canonical(roleType) ==
  IF ToLower(roleType) = "role" THEN "Role" ELSE "ClusterRole"

\* C14: a write that supplies kubernetes_role_type in any letter case stores
\* the canonical Role or ClusterRole, a create that does not supply it
\* stores Role, a write that supplies any other value returns an error and
\* stores nothing, and a read returns the stored value.
C14_RoleTypeCanonical ==
  [][/\ (WriteStep /\ GetOk(roleOp'.d, "kubernetes_role_type")
           /\ roleOp'.d["kubernetes_role_type"] # "")
         => IF ToLower(roleOp'.d["kubernetes_role_type"])
                 \in {"role", "clusterrole"}
            THEN roleOp'.err = ""
                   => roles'[roleOp'.name].K8sRoleType
                        = Canonical(roleOp'.d["kubernetes_role_type"])
            ELSE roleOp'.err # "" /\ roles' = roles
     /\ (WriteStep /\ roleOp'.name \notin DOMAIN roles
           /\ ~GetOk(roleOp'.d, "kubernetes_role_type") /\ roleOp'.err = "")
         => roles'[roleOp'.name].K8sRoleType = "Role"
     /\ (roleOp'.op = "read" /\ pathRolesRead(roleOp'.name))
         => roleOp'.resp = getRole(roleOp'.name)]_vars

Malformed(doc) == doc = "badrules"

\* C15: a write whose generated_role_rules, as merged, is neither a JSON nor
\* a YAML rules document returns an error and leaves storage, and so any
\* stored value of that role, exactly as it was.
C15_MalformedRulesRejected ==
  [][(WriteStep /\ Malformed(Merged.RoleRules))
       => (roleOp'.err # "" /\ roles' = roles)]_vars

C15_Witness ==
  /\ roleOp.op = "write" /\ roleOp.err = errRules
  /\ roleOp.d["generated_role_rules"] = "badrules"
  /\ roleOp.name \in DOMAIN roles
  /\ roles[roleOp.name].RoleRules \in {"rules", "yamlrules"}

RoleFields ==
  [allowed_kubernetes_namespaces |-> "K8sNamespaces",
   token_max_ttl |-> "TokenMaxTTL", token_ttl |-> "TokenTTL",
   service_account_name |-> "ServiceAccountName",
   kubernetes_role_name |-> "K8sRoleName",
   kubernetes_role_type |-> "K8sRoleType",
   generated_role_rules |-> "RoleRules"]

RoleInvariants(entry) ==
  /\ entry.K8sNamespaces # {}
  /\ TargetCount(entry) = 1
  /\ ToLower(entry.K8sRoleType) \in {"role", "clusterrole"}
  /\ ~Malformed(entry.RoleRules)
  /\ TTLsOrdered(entry)

\* C16: an accepted write stores, for every field the request omits, the
\* value that was stored (for a new role the empty value, Role for the role
\* type) and, for every field it supplies, the supplied value (Role for an
\* empty role type); the stored entry satisfies every role invariant; a
\* rejected write stores nothing.
C16_UpsertMerges ==
  [][WriteStep =>
       IF roleOp'.err # "" THEN roles' = roles
       ELSE LET old == getRole(roleOp'.name)
                new == roles'[roleOp'.name]
                d == roleOp'.d
            IN /\ \A k \in DOMAIN RoleFields :
                    LET v == IF GetOk(d, k) THEN d[k] ELSE old[RoleFields[k]]
                    IN new[RoleFields[k]] =
                         IF k = "kubernetes_role_type" /\ v = ""
                         THEN defaultRoleType ELSE v
               /\ \A n \in DOMAIN roles \ {roleOp'.name} :
                    n \in DOMAIN roles' /\ roles'[n] = roles[n]
               /\ RoleInvariants(new)]_vars

(* The remote objects a Revoke deletes, as <<kind, namespace, name>>,      *)
(* read from the bookkeeping d of the lease alone.                         *)
RevokeTargets(d) ==
  (IF d.created_role_binding = "" THEN {}
   ELSE IF d.cluster_role_binding
   THEN { <<"ClusterRoleBinding", "", d.created_role_binding>> }
   ELSE { <<"RoleBinding", d.service_account_namespace,
            d.created_role_binding>> })
  \cup
  (IF d.created_service_account = "" THEN {}
   ELSE { <<"ServiceAccount", d.service_account_namespace,
            d.created_service_account>> })
  \cup
  (IF d.created_role = "" THEN {}
   ELSE IF RoleKind(d.created_role_type) = "ClusterRole"
   THEN { <<"ClusterRole", "", d.created_role>> }
   ELSE { <<RoleKind(d.created_role_type), d.service_account_namespace,
            d.created_role>> })

RoleStep == roleOp' # roleOp \/ roles' # roles

\* C17: a write or a delete of a role definition makes no remote call and
\* leaves every issuance, lease, WAL entry and revocation record as it was;
\* and a successful Revoke, whatever the role storage holds by then, removes
\* exactly the objects whose kind, namespace and name the lease's own
\* bookkeeping gives, which no role operation has changed since issuance.
C17_RoleOpsLeaveCredentials ==
  /\ [][RoleStep => UNCHANGED <<cluster, wal, iss, lease, rev>>]_vars
  /\ [][\A i \in Issuances :
          (RevokeStep(i) /\ rev'[i].result = "ok") =>
            /\ cluster' = { o \in cluster :
                  <<o.Kind, o.Namespace, o.Name>>
                     \notin RevokeTargets(iss[i].resp) }
            /\ rev'[i].attempted = Marked(iss[i].resp)]_vars

C17_Witness ==
  \E i \in Issuances :
    /\ lease[i] = "revoked"
    /\ iss[i].resp.created_role # ""
    /\ ObjectsOf(i) = {}
    /\ roleOp.op \in {"write", "delete"} /\ roleOp.err = ""
    /\ \/ iss[i].RoleName \notin DOMAIN roles
       \/ roles[iss[i].RoleName].K8sRoleType # iss[i].role.K8sRoleType


\* C18: an issuance for a role with service_account_name set makes no remote
\* call but the token request, exactly one when it succeeds; it creates no
\* remote object and writes no WAL entry; and its successful response names
\* the role's account in the request namespace with empty created-role,
\* created-binding and created-service-account bookkeeping.
C18_ExistingAccountPath ==
  \A i \in Issuances :
    iss[i].role.ServiceAccountName # "" =>
      /\ iss[i].calls \in { <<>>, <<"createToken">> }
      /\ ObjectsOf(i) = {}
      /\ WALOf(i) = {}
      /\ iss[i].roleWALId = NoWAL /\ iss[i].bindingWALId = NoWAL
      /\ iss[i].result = "ok" =>
            /\ iss[i].calls = <<"createToken">>
            /\ iss[i].resp.service_account_name = iss[i].role.ServiceAccountName
            /\ iss[i].resp.service_account_namespace = reqs[i].Namespace
            /\ iss[i].resp.created_role = ""
            /\ iss[i].resp.created_role_binding = ""
            /\ iss[i].resp.created_service_account = ""

C18_Witness ==
  \E i \in Issuances :
    /\ iss[i].role.ServiceAccountName # ""
    /\ iss[i].result = "ok"
    /\ lease[i] = "active"
    /\ iss[i].calls = <<"createToken">>


\* C19: when the token has been issued and a WAL deletion then fails, the
\* issuance reports the deletion error, the objects it created are left in
\* place, and the credential is handed back to the caller with its lease.
C19_CredentialSurvivesWALFailure ==
  \A i \in Issuances :
    (iss[i].pc = "done" /\ iss[i].errAt = "deleteWAL") =>
      /\ iss[i].result = "error"
      /\ iss[i].calls[Len(iss[i].calls)] = "createToken"
      /\ iss[i].resp # NoResp
      /\ lease[i] # "none"


\* C20: deleting an object that does not exist succeeds, for the account,
\* the role and the binding alike: a Revoke of a lease already revoked, and
\* a rollback of a WAL entry whose object is already gone, succeed when the
\* cluster answers, and change nothing in the cluster.
C20_DeleteIdempotent ==
  /\ [][\A i \in Issuances :
          (lease[i] = "revoked" /\ RevokeCall(i, TRUE, FALSE, FALSE, FALSE)) =>
            /\ rev'[i].result = "ok"
            /\ rev'[i].attempted = Marked(iss[i].resp)
            /\ cluster' = cluster]_vars
  /\ [][\A e \in wal :
          (~TargetExists(cluster, e) /\ SweepCall(e, TRUE, TRUE)) =>
            /\ wal' = wal \ {e}
            /\ cluster' = cluster
            /\ discarded' = discarded]_vars

C20_Witness ==
  \E i \in Issuances :
    /\ rev[i].again /\ rev[i].result = "ok"
    /\ rev[i].attempted = {"binding", "serviceAccount", "role"}
    /\ ObjectsOf(i) = {}


\* C21: the renewal entry point returns a nil response and a nil error
\* whatever it is given, and the TTL and max TTL of every issued secret stay
\* the ones createCreds attached to it.
C21_NeverRenewed ==
  \A i \in Issuances :
    /\ iss[i].renewed \in {"none", "nil"}
    /\ iss[i].resp # NoResp =>
          /\ iss[i].resp.TTL = iss[i].theTTL
          /\ iss[i].resp.MaxTTL = iss[i].role.TokenMaxTTL


(* The remote calls of an issuance for role, in dependency order.          *)
PathCalls(role) ==
  IF role.ServiceAccountName # "" THEN <<"createToken">>
  ELSE IF role.K8sRoleName # ""
  THEN <<"createRoleBinding", "createServiceAccount", "createToken">>
  ELSE IF role.RoleRules # ""
  THEN <<"createRole", "createRoleBinding", "createServiceAccount",
         "createToken">>
  ELSE <<>>

IsPrefix(a, b) == Len(a) <= Len(b) /\ a = SubSeq(b, 1, Len(a))

\* C22: the remote calls an issuance has made are always an initial part of
\* its path's order (binding, account, token on the existing-role path; role,
\* binding, account, token on the generated-rules path); once the issuance
\* has failed it makes no further call; and a credential is returned only
\* after every call of the path has been made, the token request last.
C22_CallsInDependencyOrder ==
  /\ [](\A i \in Issuances :
          /\ IsPrefix(iss[i].calls, PathCalls(iss[i].role))
          /\ iss[i].resp # NoResp => iss[i].calls = PathCalls(iss[i].role))
  /\ [][\A i \in Issuances :
          iss[i].result = "error" => iss'[i].calls = iss[i].calls]_vars

C22_Witness ==
  \E i \in Issuances :
    /\ iss[i].result = "ok"
    /\ iss[i].resp # NoResp
    /\ Len(iss[i].calls) = 4


HasCalled(i, call) == \E k \in 1..Len(iss[i].calls) : iss[i].calls[k] = call

RemoteCalls ==
  {"createRole", "createRoleBinding", "createServiceAccount", "createToken"}

C24_NoCleanupBeforeToken ==
  [][iss' # iss =>
       /\ cluster \subseteq cluster'
       /\ \A e \in wal \ wal' :
            /\ iss[e.id[1]].pc = "deleteWALs"
            /\ iss[e.id[1]].resp # NoResp
            /\ iss[e.id[1]].calls[Len(iss[e.id[1]].calls)] = "createToken"
       /\ \A i \in Issuances :
            (/\ iss[i].result = "none" /\ iss'[i].result = "error"
             /\ iss'[i].errAt \in RemoteCalls) =>
               /\ iss'[i].pc = "done"
               /\ wal' = wal
               /\ cluster' = cluster]_vars

C24_Witness ==
  \E i \in Issuances :
    /\ iss[i].result = "error"
    /\ iss[i].errAt = "createToken"
    /\ iss[i].roleWALId \in { e.id : e \in wal }
    /\ ObjectsOf(i) # {}


\* C25: a rollback of a role or binding WAL entry, once it has its client:
\* when the cluster answers the delete, it succeeds, the entry leaves storage
\* and the object is absent, whether it was deleted or was not there; when
\* the delete fails and the entry's expiration is in the past, it succeeds
\* and the entry is discarded with the cluster untouched; when the delete
\* fails and the expiration has not passed, the entry stays in storage.
C25_RollbackOutcomes ==
  [][\A e \in wal : \A delOK \in BOOLEAN :
       SweepCall(e, TRUE, delOK) =>
         /\ (delOK /\ (e.kind = walRoleKind => RoleKind(e.RoleType) # "")) =>
               /\ wal' = wal \ {e}
               /\ ~TargetExists(cluster', e)
               /\ discarded' = discarded
         /\ (~delOK /\ now > e.Expiration) =>
               /\ wal' = wal \ {e}
               /\ e.id \in discarded'
               /\ cluster' = cluster
         /\ (~delOK /\ now <= e.Expiration) =>
               /\ wal' = wal
               /\ discarded' = discarded
               /\ cluster' = cluster]_vars

C25_Witness ==
  \E id \in discarded :
    /\ \A e \in wal : e.id # id
    /\ \E o \in ObjectsOf(id[1]) :
         o.Kind \in (IF id[2] = walRoleKind THEN {"Role", "ClusterRole"}
                     ELSE {"RoleBinding", "ClusterRoleBinding"})


WALIds == { <<i, k>> : i \in Issuances, k \in {walRoleKind, walBindingKind} }

Expired(id) == \E e \in wal : e.id = id /\ now > e.Expiration

C27_ClientBuiltOnce ==
  /\ getClients.builds <= 1
  /\ \A c1 \in Callers, c2 \in Callers :
       (getClients.ret[c1] > 0 /\ getClients.ret[c2] > 0) =>
          getClients.ret[c1] = getClients.ret[c2]


(* The kinds of the object an issuance creates first: the role on the      *)
(* generated-rules path, the binding on the existing-role path.            *)
FirstKinds(i) ==
  IF iss[i].role.RoleRules # "" THEN {"Role", "ClusterRole"}
  ELSE {"RoleBinding", "ClusterRoleBinding"}

\* C28: of the objects an issuance has created, the one created first has no
\* owner reference, and every other one has the first object of that same
\* issuance as its owner reference.
C28_FirstObjectOwnsRest ==
  \A i \in Issuances : \A o \in ObjectsOf(i) :
    IF o.Kind \in FirstKinds(i)
    THEN o.Owner = NoOwner
    ELSE /\ o.Owner.Kind \in FirstKinds(i)
         /\ o.Owner.Name = iss[i].genName
         /\ o.Owner.UID = i

C28_Witness ==
  /\ \E i \in Issuances :
       /\ iss[i].role.RoleRules # ""
       /\ Cardinality(ObjectsOf(i)) = 3


BindingKinds == {"RoleBinding", "ClusterRoleBinding"}

(* The owner reference to the role a generated-rules issuance created.     *)
GeneratedRoleRef(i) ==
  OwnerRefOf(RoleKind(iss[i].role.K8sRoleType), iss[i].genName, i)

\* C29: on the generated-rules path the binding's owner reference is the
\* generated role and the service account's owner reference is the binding.
C29_OwnershipChain ==
  \A i \in Issuances :
    iss[i].role.RoleRules # "" =>
      \A o \in ObjectsOf(i) :
        /\ o.Kind \in BindingKinds => o.Owner = GeneratedRoleRef(i)
        /\ o.Kind = "ServiceAccount" =>
              /\ o.Owner.Kind \in BindingKinds
              /\ o.Owner.Name = iss[i].genName

\* C29 (amended): on the generated-rules path the generated role is the
\* owner reference of both the binding and the service account.
C29_RoleOwnsBindingAndAccount ==
  \A i \in Issuances :
    iss[i].role.RoleRules # "" =>
      \A o \in ObjectsOf(i) :
        /\ o.Kind \in BindingKinds => o.Owner = GeneratedRoleRef(i)
        /\ o.Kind = "ServiceAccount" => o.Owner = GeneratedRoleRef(i)

C29_Witness ==
  \E i \in Issuances :
    /\ iss[i].role.RoleRules # ""
    /\ \E o \in ObjectsOf(i) :
         o.Kind = "ServiceAccount" /\ o.Owner = GeneratedRoleRef(i)
    /\ \E o \in ObjectsOf(i) :
         o.Kind \in BindingKinds /\ o.Owner = GeneratedRoleRef(i)


\* C30: an issuance keeps the one name it generated; every object it has
\* created and every WAL entry it has in storage carries that name; the
\* created-object bookkeeping it returns is that name where it is not empty;
\* and the subject of its binding is the service account of that name in the
\* request namespace.
C30_OneGeneratedName ==
  /\ [](\A i \in Issuances :
          /\ \A o \in ObjectsOf(i) :
               /\ o.Name = iss[i].genName
               /\ o.Kind \in BindingKinds =>
                     o.Subject = [Namespace |-> reqs[i].Namespace,
                                  Name |-> iss[i].genName]
               /\ o.Kind = "ServiceAccount" =>
                     o.Namespace = reqs[i].Namespace
          /\ \A e \in WALOf(i) : e.Name = iss[i].genName
          /\ iss[i].resp # NoResp =>
               /\ iss[i].resp.created_role \in {"", iss[i].genName}
               /\ iss[i].resp.created_role_binding \in {"", iss[i].genName}
               /\ iss[i].resp.created_service_account \in {"", iss[i].genName}
               /\ iss[i].role.ServiceAccountName = "" =>
                     /\ iss[i].resp.service_account_name = iss[i].genName
                     /\ iss[i].resp.created_service_account = iss[i].genName
                     /\ iss[i].resp.created_role_binding = iss[i].genName
               /\ iss[i].role.RoleRules # "" =>
                     iss[i].resp.created_role = iss[i].genName)
  /\ [][\A i \in Issuances :
          iss[i].genName # "" => iss'[i].genName = iss[i].genName]_vars

C30_Witness ==
  \E i \in Issuances :
    /\ iss[i].resp # NoResp
    /\ iss[i].resp.created_role = iss[i].genName
    /\ reqs[i].ClusterRoleBinding
    /\ \E o \in ObjectsOf(i) : o.Kind = "ClusterRoleBinding"
    /\ \E o \in ObjectsOf(i) : o.Kind = "ServiceAccount"


(* The objects of the cluster c that the bookkeeping d names, by what      *)
(* Revoke calls them.                                                      *)
Bookkept(c, d, what) ==
  { o \in c :
      /\ NamedBy(d, o)
      /\ what = (IF o.Kind \in {"RoleBinding", "ClusterRoleBinding"}
                 THEN "binding"
                 ELSE IF o.Kind = "ServiceAccount" THEN "serviceAccount"
                 ELSE "role") }

\* C31: the deletes a Revoke has attempted are an initial part of the order
\* binding, service account, role over the objects its bookkeeping marks; and
\* a Revoke step that removes the credential's role leaves no binding and no
\* service account of that credential behind, as one that removes the
\* service account leaves no binding behind.
C31_RevokeOrder ==
  /\ [](\A i \in Issuances :
          LET att == rev[i].attempted
              m == Marked(iss[i].resp)
          IN /\ "role" \in att => m \subseteq att
             /\ "serviceAccount" \in att => (m \ {"role"}) \subseteq att)
  /\ [][\A i \in Issuances :
          RevokeStep(i) =>
            LET d == iss[i].resp
                gone(what) == Bookkept(cluster, d, what)
                                 \ Bookkept(cluster', d, what)
                left(what) == Bookkept(cluster', d, what)
            IN /\ gone("role") # {} =>
                    left("binding") = {} /\ left("serviceAccount") = {}
               /\ gone("serviceAccount") # {} => left("binding") = {}]_vars

C31_Witness ==
  \E i \in Issuances :
    /\ rev[i].failed = {"role"}
    /\ rev[i].attempted = {"binding", "serviceAccount", "role"}
    /\ Bookkept(cluster, iss[i].resp, "role") # {}
    /\ Bookkept(cluster, iss[i].resp, "binding") = {}
    /\ Bookkept(cluster, iss[i].resp, "serviceAccount") = {}


\* C32: every entry a step adds to the write-ahead log carries as expiration
\* the time of the write plus maxWALAge, which is strictly later than the
\* time of the write.
C32_ExpirationAtWrite ==
  [][\A e \in wal' \ wal :
       /\ e.Expiration = now + maxWALAge
       /\ e.Expiration > now]_vars

C32_Witness ==
  /\ now > 0
  /\ \E e \in wal : e.kind = walBindingKind /\ e.Expiration = now + maxWALAge
  /\ \E i \in Issuances : iss[i].pc = "createServiceAccount"


\* C33: an entry whose kind tag walRollback does not know is never taken
\* out of the log and never discarded, whatever its payload and expiration;
\* and the call that returns the unknown-kind error for it changes nothing
\* in the cluster and obtains no client.
C33_UnknownKindRejected ==
  /\ [][\A e \in wal :
          e.kind \notin {walRoleKind, walBindingKind} =>
            e \in wal' /\ e.id \notin discarded']_vars
  /\ [][unknownKind' # unknownKind =>
          /\ cluster' = cluster
          /\ client' = client
          /\ wal' = wal
          /\ discarded' = discarded]_vars
  /\ [](\A id \in unknownKind :
          \E e \in wal :
            e.id = id /\ e.kind \notin {walRoleKind, walBindingKind})

C33_Witness ==
  \E e \in wal :
    /\ e.id \in unknownKind
    /\ now > e.Expiration
    /\ RoleBindingExists(cluster, e.Namespace, e.Name, e.IsCluster)


(* The objects issuance i created that nothing leads to: not named by the  *)
(* bookkeeping of a lease the host holds, not named by a stored WAL entry, *)
(* and not owned, directly or through one more owner, by such an object.   *)
DirectlyTracked(i, o) ==
  \/ lease[i] # "none" /\ NamedBy(iss[i].resp, o)
  \/ \E e \in wal : Names(e, o)

OwnerOf(o) ==
  { p \in cluster :
      /\ o.Owner # NoOwner
      /\ p.Kind = o.Owner.Kind /\ p.Name = o.Owner.Name /\ p.UID = o.Owner.UID }

Untracked(i) ==
  { o \in ObjectsOf(i) :
      /\ ~DirectlyTracked(i, o)
      /\ \A p \in OwnerOf(o) :
            /\ ~DirectlyTracked(i, p)
            /\ \A q \in OwnerOf(p) : ~DirectlyTracked(i, q) }

\* C34: at every return of an issuance, with success or with any error, each
\* object the issuance created and left in the cluster is named by the
\* bookkeeping of its lease, or by a WAL entry in storage, or is owned by an
\* object that is.
C34_TrackedAtReturn ==
  [][\A i \in Issuances :
       (iss[i].pc # "done" /\ iss'[i].pc = "done") => (Untracked(i) = {})']_vars


(* The objects the bookkeeping d marks as created that are missing from    *)
(* the cluster c.                                                          *)
MissingFrom(c, d) == { what \in Marked(d) : Bookkept(c, d, what) = {} }

\* C35: whenever an issuance returns success, every object its returned
\* bookkeeping names (role, binding, service account) exists in the cluster,
\* whatever the recovery sweep did while the issuance was in progress.
C35_SuccessObjectsExist ==
  [][\A i \in Issuances :
       (iss[i].pc # "done" /\ iss'[i].pc = "done" /\ iss'[i].result = "ok")
         => (MissingFrom(cluster, iss[i].resp) = {})']_vars


(* A step in which walRollback retired a stored entry of issuance i: the   *)
(* entry leaves the log and no issuance moves (the issuance itself takes   *)
(* its entries out only as it returns).                                    *)
RollbackStep(i) == iss' = iss /\ \E e \in wal \ wal' : e.id[1] = i

C37_SuccessImpliesAbsence ==
  /\ [][\A i \in Issuances :
          (rev'[i] # rev[i] /\ rev'[i].result = "ok") =>
            \A o \in cluster' : ~NamedBy(iss[i].resp, o)]_vars
  /\ [][\A e \in wal \ wal' :
          (iss' = iss /\ now <= e.Expiration) =>
            /\ e.id \notin discarded'
            /\ \A o \in cluster' : ~Names(e, o)]_vars

C37_Witness ==
  \E i \in Issuances :
    /\ rev[i].result = "ok" /\ ~rev[i].again
    /\ rev[i].attempted = {"binding", "serviceAccount"}
    /\ iss[i].resp.cluster_role_binding
    /\ \A o \in cluster : ~NamedBy(iss[i].resp, o)


----------------------------------------------------------------------------
Next ==
  \/ \E i \in Issuances : Begin(i)
  \/ \E i \in Issuances : CreateRole(i)
  \/ \E i \in Issuances : PutRoleWAL(i)
  \/ \E i \in Issuances : CreateRoleBinding(i)
  \/ \E i \in Issuances : PutBindingWAL(i)
  \/ \E i \in Issuances : CreateServiceAccount(i)
  \/ \E i \in Issuances : CreateToken(i)
  \/ \E i \in Issuances : DeleteWALs(i)
  \/ \E i \in Issuances : Crash(i)
  \/ \E e \in wal : Sweep(e)
  \/ \E i \in Issuances : Revoke(i)
  \/ \E o \in cluster : GarbageCollect(o)
  \/ Tick

Spec == Init /\ [][Next]_vars

(* The recovery runs: the host keeps sweeping, a rollback whose remote     *)
(* delete succeeds is not postponed forever while its entry is stored, and *)
(* the cluster's garbage collector keeps collecting.  The requests are     *)
(* those of the two paths that create objects, in one namespace (the roles *)
(* that allow "ns2" allow every namespace and treat both alike); a         *)
(* concurrent issuance takes the existing-role path with a cluster-wide    *)
(* binding, which writes a WAL entry and owns a service account.           *)
FairRequests ==
  { q \in Requests :
      q.RoleName \in {"k8s", "k8sc", "gen", "genc"} /\ q.Namespace = "ns1" }

FairConcurrentRequests == { credsRequest("k8sc", "ns1", TRUE, 0) }

FairInit ==
  /\ roles = StoredRoles
  /\ roleOp = NoRoleOp
  /\ getClients = IdleGetClients
  /\ unknownKind = {}
  /\ reqs \in InitWith(FairRequests, FairConcurrentRequests)
  /\ cluster = PreExisting
  /\ wal = {}
  /\ iss = [i \in Issuances |-> IdleIssuance]
  /\ lease = [i \in Issuances |-> "none"]
  /\ rev = [i \in Issuances |-> NoRevoke]
  /\ discarded = {}
  /\ now = 0
  /\ client = "nil"

Fairness ==
  /\ WF_vars(\E o \in cluster : GarbageCollect(o))
  /\ \A i \in Issuances : \A k \in {walRoleKind, walBindingKind} :
       WF_vars(\E e \in wal : e.id = <<i, k>> /\ SweepCall(e, TRUE, TRUE))

FairSpec == FairInit /\ [][Next]_vars /\ Fairness

(* Role management alone. *)
RoleInit ==
  /\ roles = StoredRoles
  /\ roleOp = NoRoleOp
  /\ getClients = IdleGetClients
  /\ unknownKind = {}
  /\ reqs \in InitWith({credsRequest("gen", "ns1", FALSE, 0)},
                        {credsRequest("gen", "ns1", FALSE, 0)})
  /\ cluster = PreExisting
  /\ wal = {}
  /\ iss = [i \in Issuances |-> IdleIssuance]
  /\ lease = [i \in Issuances |-> "none"]
  /\ rev = [i \in Issuances |-> NoRevoke]
  /\ discarded = {}
  /\ now = 0
  /\ client = "nil"

RoleNext ==
  \/ \E name \in RoleNames, d \in RoleWrites : pathRolesWrite(name, d)
  \/ \E name \in RoleNames : pathRolesRead(name)
  \/ \E name \in RoleNames : pathRolesDelete(name)

RoleSpec == RoleInit /\ [][RoleNext]_vars

(* Issuance together with role management: the role of the first request *)
(* is rewritten or deleted at any moment.                                  *)
LifecycleRequests ==
  { credsRequest("gen", "ns1", FALSE, 0), credsRequest("k8sc", "ns1", TRUE, 0) }

LifecycleConcurrentRequests == { credsRequest("sa", "ns1", FALSE, 0) }

LifecycleWrites ==
  { "kubernetes_role_type" :> "ClusterRole", "kubernetes_role_type" :> "Role" }

LifecycleInit ==
  /\ roles = StoredRoles
  /\ roleOp = NoRoleOp
  /\ getClients = IdleGetClients
  /\ unknownKind = {}
  /\ reqs \in InitWith(LifecycleRequests, LifecycleConcurrentRequests)
  /\ cluster = PreExisting
  /\ wal = {}
  /\ iss = [i \in Issuances |-> IdleIssuance]
  /\ lease = [i \in Issuances |-> "none"]
  /\ rev = [i \in Issuances |-> NoRevoke]
  /\ discarded = {}
  /\ now = 0
  /\ client = "nil"

LifecycleNext ==
  \/ Next
  \/ \E d \in LifecycleWrites : pathRolesWrite(reqs[1].RoleName, d)
  \/ pathRolesDelete(reqs[1].RoleName)

LifecycleSpec == LifecycleInit /\ [][LifecycleNext]_vars

(* Issuance together with the host's retries: a revoked lease is revoked   *)
(* again, and a rolled-back WAL entry is kept and swept again.             *)
RetryInit == LifecycleInit

RetryNext ==
  \/ Next
  \/ \E i \in Issuances : RevokeAgain(i)
  \/ \E e \in wal : SweepEntryKept(e)

RetrySpec == RetryInit /\ [][RetryNext]_vars

(* Issuance together with the renewal entry point: the host calls         *)
(* kubeTokenRenew for an active lease, and the role the lease was issued   *)
(* from is deleted at any moment.                                          *)
RenewRequests ==
  { credsRequest("t12", "ns1", FALSE, ttl) : ttl \in ReqTTLs }
    \cup { credsRequest("gen", "ns1", FALSE, 0),
           credsRequest("kt", "ns1", FALSE, 0) }

RenewConcurrentRequests == { credsRequest("sa", "ns1", FALSE, 0) }

RenewInit ==
  /\ roles = StoredRoles
  /\ roleOp = NoRoleOp
  /\ getClients = IdleGetClients
  /\ unknownKind = {}
  /\ reqs \in InitWith(RenewRequests, RenewConcurrentRequests)
  /\ cluster = PreExisting
  /\ wal = {}
  /\ iss = [i \in Issuances |-> IdleIssuance]
  /\ lease = [i \in Issuances |-> "none"]
  /\ rev = [i \in Issuances |-> NoRevoke]
  /\ discarded = {}
  /\ now = 0
  /\ client = "nil"

RenewNext ==
  \/ Next
  \/ \E i \in Issuances, storageOK \in BOOLEAN : kubeTokenRenew(i, storageOK)
  \/ pathRolesDelete(reqs[1].RoleName)

RenewSpec == RenewInit /\ [][RenewNext]_vars

(* Issuance under repeated sweeps whose remote deletes all fail: the host  *)
(* keeps calling walRollback for every stored entry, and the call obtains  *)
(* its client.                                                             *)
SweepFairness ==
  \A id \in WALIds :
    WF_vars(\E e \in wal : e.id = id /\ SweepCall(e, TRUE, FALSE))

SweepInit ==
  /\ roles = StoredRoles
  /\ roleOp = NoRoleOp
  /\ getClients = IdleGetClients
  /\ unknownKind = {}
  /\ reqs \in InitWith(LifecycleRequests, FairConcurrentRequests)
  /\ cluster = PreExisting
  /\ wal = {}
  /\ iss = [i \in Issuances |-> IdleIssuance]
  /\ lease = [i \in Issuances |-> "none"]
  /\ rev = [i \in Issuances |-> NoRevoke]
  /\ discarded = {}
  /\ now = 0
  /\ client = "nil"

SweepSpec == SweepInit /\ [][Next]_vars /\ SweepFairness

(* Concurrent calls of getClient against an empty cache.                  *)
ClientNext ==
  \/ \E c \in Callers : RLock(c)
  \/ \E c \in Callers : CheckCache(c)
  \/ \E c \in Callers : Lock(c)
  \/ \E c \in Callers : Build(c)
  \/ \E c \in Callers : Deferred(c)

ClientInit ==
  /\ roles = StoredRoles
  /\ roleOp = NoRoleOp
  /\ getClients = IdleGetClients
  /\ unknownKind = {}
  /\ reqs = [i \in Issuances |-> credsRequest("sa", "ns1", FALSE, 0)]
  /\ cluster = PreExisting
  /\ wal = {}
  /\ iss = [i \in Issuances |-> IdleIssuance]
  /\ lease = [i \in Issuances |-> "none"]
  /\ rev = [i \in Issuances |-> NoRevoke]
  /\ discarded = {}
  /\ now = 0
  /\ client = "nil"

ClientSpec == ClientInit /\ [][ClientNext]_vars

\* C38: getClient releases exactly the lock it holds on every exit path: no
\* caller ever releases a lock it does not hold, a caller that has returned
\* holds the lock in neither mode, the read lock is not held once it was
\* released for the upgrade, and while a caller has not returned some caller
\* can take a step; a failed construction leaves the cache empty, and a
\* caller that finds the cache empty goes on to build the client.
C38_LockReleased ==
  /\ [](getClients.misuse = {})
  /\ [](\A c \in Callers :
          /\ getClients.pc[c] = "done" =>
                c \notin getClients.readers /\ getClients.writer # c
          /\ getClients.pc[c] \in {"unlocked", "wlocked"} =>
                c \notin getClients.readers)
  /\ []((\E c \in Callers : getClients.pc[c] # "done") => ENABLED ClientNext)
  /\ [][\A c \in Callers :
          /\ (getClients.err[c] = "" /\ getClients'.err[c] = "newClient") =>
                getClients'.cache = 0
          /\ (getClients.pc[c] = "rlocked" /\ getClients'.pc[c] # "rlocked"
                /\ getClients.cache = 0) =>
                getClients'.pc[c] = "unlocked"]_vars

C38_Witness ==
  /\ getClients.readers = {} /\ getClients.writer = 0
  /\ getClients.cache # 0
  /\ \E c1 \in Callers, c2 \in Callers, c3 \in Callers :
       /\ getClients.pc[c1] = "done" /\ getClients.err[c1] = "newClient"
       /\ getClients.pc[c2] = "done" /\ getClients.err[c2] = "config"
       /\ getClients.pc[c3] = "done" /\ getClients.ret[c3] = getClients.cache



(* Dispatch on the kind tag: the log holds one entry written with a kind   *)
(* tag this revision does not know, whose payload names the objects of the *)
(* first issuance and whose expiration is passed from the start or never   *)
(* reached.                                                                *)
ForeignKinds == {"", "token"}

ForeignEntries ==
  { [id |-> <<0, k>>, kind |-> k, Namespace |-> "ns1", Name |-> GenName(1),
     RoleType |-> "", IsCluster |-> c, Expiration |-> x] :
      k \in ForeignKinds, c \in BOOLEAN, x \in {0, MaxTime + maxWALAge} }

DispatchInit ==
  /\ roles = StoredRoles
  /\ roleOp = NoRoleOp
  /\ getClients = IdleGetClients
  /\ unknownKind = {}
  /\ reqs \in InitWith(LifecycleRequests, LifecycleConcurrentRequests)
  /\ cluster = PreExisting
  /\ \E f \in ForeignEntries : wal = {f}
  /\ iss = [i \in Issuances |-> IdleIssuance]
  /\ lease = [i \in Issuances |-> "none"]
  /\ rev = [i \in Issuances |-> NoRevoke]
  /\ discarded = {}
  /\ now = 0
  /\ client = "nil"

DispatchSpec == DispatchInit /\ [][Next]_vars

====
